---- MODULE Spec2Model ----
(***************************************************************************)
(* Model of cloudflare-ddns.                                               *)
(*                                                                         *)
(* Spec           the scheduler (apps/api/src/scheduler.ts), its           *)
(*                process-wide wiring (runtime.ts), the manual trigger     *)
(*                (apps/www/app/actions.ts) and the suspension points of   *)
(*                an update pass                                           *)
(* SpecDiscovery  target discovery (update/targets.ts) as a function of    *)
(*                the configuration and of the provider's answers          *)
(* SpecResolver   the address resolver (update/ip-resolver.ts)             *)
(* SpecReconcile  reconcileHostname (update/reconcile.ts) against the      *)
(*                provider's records, invoked in succession                *)
(* SpecPass       one pass, performUpdate (update/index.ts), from provider *)
(*                call to provider call                                    *)
(* SpecClient     one call of a CloudflareClient method                    *)
(*                (cloudflare/client.ts), from request to request          *)
(* SpecBoot       the start of the process: config.ts and runtime.ts are   *)
(*                evaluated, then the scheduler runs                       *)
(*                                                                         *)
(* JavaScript runs one job at a time: an action of this model is one job,  *)
(* i.e. the code that runs between two suspension points.  Continuations   *)
(* of settled promises (microtasks) run before any timer callback, network *)
(* completion or incoming request (macrotasks).                            *)
(***************************************************************************)
EXTENDS Integers, Sequences, FiniteSets, TLC

\* ---------------------------------------------------------------- bounds
MaxExec == 3     \* execute() invocations in one behaviour
MaxCalls == 2    \* provider API calls issued by one pass
MaxTimers == 2   \* setInterval handles created in one behaviour
MaxTargets == 2  \* entries of TARGET_HOSTNAMES, and of TARGET_ZONES
MaxRuns == 2     \* reconciliations of one hostname in succession
MaxItems == 3    \* items the provider holds for one list operation
MaxPageSize == 2 \* the client's pageSize
MaxRequests == 4 \* requests of one client call the model follows

VARIABLES
  shouldAutoStart,   \* runtime.ts: NEXT_PHASE is not the production build
  schedulerStarted,  \* runtime.ts: module-level flag
  timer,             \* scheduler.ts: interval handle, or undefined (null)
  running,           \* scheduler.ts: single-flight flag
  lastSuccess,       \* scheduler.ts: last Update Summary, or undefined
  lastError,         \* scheduler.ts: last Scheduler Error, or undefined
  intervals,         \* the runtime's set of active setInterval handles
  nextHandle,        \* next handle setInterval will return
  execs,             \* the execute() invocations that have not finished yet
  nextExec,          \* number of the next execute() invocation
  lastDone,          \* the execute() invocation that finished last, or undefined
  lastOutcome,       \* outcome of the pass whose performUpdate settled last
  lastOk,            \* summary of the last pass whose performUpdate returned
  snapshotResult     \* what snapshot() returned, if the last step called it

\* Target discovery (update/targets.ts) is studied on its own, as a function
\* of the configuration and of the provider's answers.
VARIABLES
  tInput,            \* the configuration and the provider's zones and records
  tResult            \* what the function applied last returned or threw

schedulerVars == <<shouldAutoStart, schedulerStarted, timer, running, lastSuccess,
                   lastError, intervals, nextHandle, execs, nextExec, lastDone,
                   lastOutcome, lastOk, snapshotResult>>

discoveryVars == <<tInput, tResult>>

\* The address resolver (update/ip-resolver.ts) is studied on its own too.
VARIABLES
  rInput,            \* the arguments of resolvePublicAddresses
  rLookups,          \* the lookups it started: pending, or how each settled
  rResult            \* how its promise settled, once it has

resolverVars == <<rInput, rLookups, rResult>>

\* The update pass (update/index.ts) and the record reconciler
\* (update/reconcile.ts) run against the provider's records.
VARIABLES
  uConfig,           \* the AppConfig in force
  uProvider,         \* the provider: the visible zones and their DNS records
  uRun,              \* the invocation under way: where it is and its locals
  uCalls,            \* the provider calls the invocation has issued, in order
  uPrev              \* what the invocation before it returned or threw

updateVars == <<uConfig, uProvider, uRun, uCalls, uPrev>>

\* One call of a CloudflareClient method (cloudflare/client.ts) is studied
\* on its own, request by request.
VARIABLES
  cServer,           \* the method called and how the provider answers it
  cRun               \* the call under way: where it is and its locals

clientVars == <<cServer, cRun>>

\* The start of the process: the evaluation of the modules config.ts and
\* runtime.ts.
VARIABLES
  bEnv,              \* process.env
  bConfig,           \* config.ts: how loadConfig() ended, once it has run
  bRuntime           \* runtime.ts: whether the module has been evaluated

bootVars == <<bEnv, bConfig, bRuntime>>

vars == <<schedulerVars, discoveryVars, resolverVars, updateVars, clientVars,
          bootVars>>

\* What a step of one component leaves alone.
outsideScheduler == <<discoveryVars, resolverVars, updateVars, clientVars, bootVars>>
outsideDiscovery == <<schedulerVars, resolverVars, updateVars, clientVars, bootVars>>
outsideResolver == <<schedulerVars, discoveryVars, updateVars, clientVars, bootVars>>
outsideUpdate == <<schedulerVars, discoveryVars, resolverVars, clientVars, bootVars>>
outsideClient == <<schedulerVars, discoveryVars, resolverVars, updateVars, bootVars>>

\* ------------------------------------------------------- optional values
None == <<>>
Some(v) == <<v>>
IsSome(o) == o # <<>>
Get(o) == o[1]

\* ------------------------------------------------------------ the errors
\* Error thrown by the address resolver (ip-resolver.ts) or by target
\* discovery (targets.ts): a plain Error.
ResolutionError == [class |-> "Error", message |-> "Failed to fetch IP"]
DiscoveryError == [class |-> "Error", message |-> "No Cloudflare zone found"]

\* CloudflareApiError thrown by CloudflareClient.request (client.ts): with the
\* envelope's error list, or with an empty list for an unparsable/empty body.
ApiErrors ==
  { [class |-> "CloudflareApiError",
     message |-> "Cloudflare API request failed with status 403",
     status |-> 403, errors |-> <<10000>>, body |-> "envelope"] }

\* The Update Summary of pass i (update/index.ts): its start timestamp tells
\* the passes apart.
Summary(i) == [timestamp |-> i]

Ok(summary) == [ok |-> TRUE, value |-> summary]
Err(error) == [ok |-> FALSE, value |-> error]

\* ------------------------------------------------------ scheduler.ts
\* The provider detail of a CloudflareApiError dropped from the failure.
captureFailure_MessageOnly(error) ==
  [message |-> IF error.class \in {"Error", "CloudflareApiError"}
               THEN error.message ELSE "Unknown error"]

\* catch block of execute(): the SchedulerError built from the thrown value
\* (timestamp and stack are wall-clock/debug text and are left out).
captureFailure(error) ==
  LET baseFailure ==
        [message |-> IF error.class \in {"Error", "CloudflareApiError"}
                     THEN error.message ELSE "Unknown error"]
  IN IF error.class = "CloudflareApiError"
     THEN [message |-> baseFailure.message, status |-> error.status,
           apiErrors |-> error.errors, responseBody |-> error.body]
     ELSE baseFailure

\* lastError = undefined left out of the try block.
RecordSuccess_KeepsError(summary, prevSuccess, prevError) ==
  [lastSuccess |-> Some(summary), lastError |-> prevError]

\* try block after the await: lastSuccess = summary; lastError = undefined
RecordSuccess(summary, prevSuccess, prevError) ==
  [lastSuccess |-> Some(summary), lastError |-> None]

\* The catch block also resets lastSuccess.
RecordFailure_ClearsSuccess(error, prevSuccess, prevError) ==
  [lastSuccess |-> None, lastError |-> Some(captureFailure(error))]

\* catch block: lastError = failure; lastSuccess is not assigned
RecordFailure(error, prevSuccess, prevError) ==
  [lastSuccess |-> prevSuccess, lastError |-> Some(captureFailure(error))]

\* Only the provider client's typed error is caught, anything else is rethrown.
Catches_OnlyApiErrors(error) == error.class = "CloudflareApiError"

\* catch (error): the clause catches every thrown value
Catches(error) == TRUE

\* running = false at the end of the try block instead of in finally.
RunningAfterPass_OnlyOnSuccess(outcome) == ~outcome.ok

\* finally block: running = false, whatever the outcome
RunningAfterPass(outcome) == FALSE

\* The test of the running flag left out: every request starts a pass.
SkipBecauseRunning_NoTest(s) == FALSE

\* if (running) { ...; return; }
SkipBecauseRunning(s) == s.running

\* The test of the timer left out of start().
AlreadyStarted_NoTest(s) == FALSE

\* if (timer !== null) { return; }
AlreadyStarted(s) == IsSome(s.timer)

\* stop() forgets the handle without cancelling it.
ClearInterval_Forgotten(active, handle) == active

\* clearInterval(timer)
ClearInterval(active, handle) == active \ {handle}

\* trigger(): return lastSuccess ?? null
TriggerResult(success) == success

\* One execute() invocation: who made it, where it is, whether it returned at
\* once because a pass was running, the provider calls it has issued, how its
\* performUpdate settled, what trigger() returned for it, and whether stop()
\* cancelled the timer while it was in flight.
NewExec(id, origin, pc, skipped) ==
  [id |-> id, origin |-> origin, pc |-> pc, skipped |-> skipped, calls |-> 0,
   outcome |-> None, ret |-> None, stopped |-> FALSE]

InFlight(e) == e.pc \in {"resolve", "discover", "reconcile", "settled"}

Live == DOMAIN execs

\* Number of provider API requests issued by the invocations in es.
RECURSIVE ProviderCalls(_)
ProviderCalls(es) ==
  IF DOMAIN es = {} THEN 0
  ELSE LET i == CHOOSE j \in DOMAIN es : TRUE
       IN es[i].calls + ProviderCalls([j \in DOMAIN es \ {i} |-> es[j]])

Without(f, i) == [j \in DOMAIN f \ {i} |-> f[j]]

\* The program state the synchronous code reads and writes.
Snap ==
  [schedulerStarted |-> schedulerStarted, timer |-> timer, running |-> running,
   intervals |-> intervals, nextHandle |-> nextHandle, execs |-> execs,
   nextExec |-> nextExec, lastDone |-> lastDone]

\* The early return moved inside the try block, so that finally resets the
\* running flag of the pass in flight.
ExecuteSync_SkipResetsRunning(s, origin) ==
  LET id == s.nextExec
  IN IF SkipBecauseRunning(s)
     THEN IF origin = "trigger"
          THEN [s EXCEPT !.running = FALSE,
                         !.execs = (id :> NewExec(id, origin, "done", TRUE)) @@ @,
                         !.nextExec = id + 1]
          ELSE [s EXCEPT !.running = FALSE,
                         !.lastDone = Some(NewExec(id, origin, "done", TRUE)),
                         !.nextExec = id + 1]
     ELSE [s EXCEPT !.running = TRUE,
                    !.execs = (id :> NewExec(id, origin, "resolve", FALSE)) @@ @,
                    !.nextExec = id + 1]

\* execute() without `running = true` (scheduler.ts:39)
ExecuteSync_LeavesRunning(s, origin) ==
  LET id == s.nextExec
  IN IF SkipBecauseRunning(s)
     THEN IF origin = "trigger"
          THEN [s EXCEPT !.execs = (id :> NewExec(id, origin, "done", TRUE)) @@ @,
                         !.nextExec = id + 1]
          ELSE [s EXCEPT !.lastDone = Some(NewExec(id, origin, "done", TRUE)),
                         !.nextExec = id + 1]
     ELSE [s EXCEPT !.execs = (id :> NewExec(id, origin, "resolve", FALSE)) @@ @,
                    !.nextExec = id + 1]

\* execute() up to its first suspension point: the test of running, and
\* running = true followed by the synchronous start of performUpdate, which
\* suspends in resolvePublicAddresses.  A skipped invocation made with
\* `void execute()` has finished; one made by trigger() is awaited.
ExecuteSync(s, origin) ==
  LET id == s.nextExec
  IN IF SkipBecauseRunning(s)
     THEN IF origin = "trigger"
          THEN [s EXCEPT !.execs = (id :> NewExec(id, origin, "done", TRUE)) @@ @,
                         !.nextExec = id + 1]
          ELSE [s EXCEPT !.lastDone = Some(NewExec(id, origin, "done", TRUE)),
                         !.nextExec = id + 1]
     ELSE [s EXCEPT !.running = TRUE,
                    !.execs = (id :> NewExec(id, origin, "resolve", FALSE)) @@ @,
                    !.nextExec = id + 1]

\* start(): void execute(); timer = setInterval(...)
StartSync(s) ==
  IF AlreadyStarted(s)
  THEN s
  ELSE LET s1 == ExecuteSync(s, "start")
       IN [s1 EXCEPT !.timer = Some(s.nextHandle),
                     !.intervals = @ \cup {s.nextHandle},
                     !.nextHandle = @ + 1]

\* stop(): clearInterval(timer); timer = null
StopSync(s) ==
  IF IsSome(s.timer)
  THEN [s EXCEPT !.intervals = ClearInterval(@, Get(s.timer)),
                 !.timer = None,
                 !.execs = [i \in DOMAIN @ |->
                              IF InFlight(@[i]) THEN [@[i] EXCEPT !.stopped = TRUE]
                              ELSE @[i]]]
  ELSE s

\* trigger() up to its await
TriggerSync(s) == ExecuteSync(s, "trigger")

\* runtime.ts, ensureSchedulerStarted()
EnsureSchedulerStartedSync(s) ==
  IF ~shouldAutoStart THEN s
  ELSE IF s.schedulerStarted THEN s
  ELSE StartSync([s EXCEPT !.schedulerStarted = TRUE])

\* ---------------------------------------------------------- job queue
\* A continuation is ready: execute() resumes after performUpdate settled, or
\* trigger() resumes after execute() returned.
MicrotaskPending ==
  \E i \in Live :
    \/ execs[i].pc = "settled"
    \/ execs[i].origin = "trigger" /\ execs[i].pc = "done"

WithinBounds(s) ==
  /\ s.nextExec <= MaxExec + 1
  /\ s.nextHandle <= MaxTimers + 1

\* A synchronous job that takes the program from Snap to s.
Apply(s) ==
  /\ ~MicrotaskPending
  /\ WithinBounds(s)
  /\ schedulerStarted' = s.schedulerStarted
  /\ timer' = s.timer
  /\ running' = s.running
  /\ intervals' = s.intervals
  /\ nextHandle' = s.nextHandle
  /\ execs' = s.execs
  /\ nextExec' = s.nextExec
  /\ lastDone' = s.lastDone
  /\ UNCHANGED <<shouldAutoStart, lastSuccess, lastError, lastOutcome, lastOk>>

\* The scheduler of a process that was built but never started.
SchedulerIdle ==
  /\ shouldAutoStart = FALSE
  /\ schedulerStarted = FALSE
  /\ timer = None
  /\ running = FALSE
  /\ lastSuccess = None
  /\ lastError = None
  /\ intervals = {}
  /\ nextHandle = 1
  /\ execs = <<>>
  /\ nextExec = 1
  /\ lastDone = None
  /\ lastOutcome = None
  /\ lastOk = None
  /\ snapshotResult = None

\* No target discovery is under study.
DiscoveryIdle == tInput = <<>> /\ tResult = <<>>

\* No address resolution is under study.
ResolverIdle == rInput = <<>> /\ rLookups = <<>> /\ rResult = <<>>

\* No update pass and no reconciliation is under study.
UpdateIdle ==
  /\ uConfig = <<>>
  /\ uProvider = <<>>
  /\ uRun = <<>>
  /\ uCalls = <<>>
  /\ uPrev = <<>>

\* No client call is under study.
ClientIdle == cServer = <<>> /\ cRun = <<>>

\* The start of the process is not under study: the modules are loaded.
BootIdle == bEnv = <<>> /\ bConfig = <<>> /\ bRuntime = <<>>

Init ==
  /\ shouldAutoStart \in BOOLEAN
  /\ schedulerStarted = FALSE
  /\ timer = None
  /\ running = FALSE
  /\ lastSuccess = None
  /\ lastError = None
  /\ intervals = {}
  /\ nextHandle = 1
  /\ execs = <<>>
  /\ nextExec = 1
  /\ lastDone = None
  /\ lastOutcome = None
  /\ lastOk = None
  /\ snapshotResult = None
  /\ DiscoveryIdle
  /\ ResolverIdle
  /\ UpdateIdle
  /\ ClientIdle
  /\ BootIdle

\* ------------------------------------------------ requests and timers
\* runtime.ts: ensureSchedulerStarted(), at module load or from the dashboard
EnsureSchedulerStarted == Apply(EnsureSchedulerStartedSync(Snap))

\* scheduler.start()
Start == Apply(StartSync(Snap))

\* scheduler.stop()
Stop == Apply(StopSync(Snap))

\* the interval callback of an active handle: void execute()
Tick == \E h \in intervals : Apply(ExecuteSync(Snap, "tick"))

\* scheduler.trigger(), up to its await
Trigger == Apply(TriggerSync(Snap))

\* actions.ts: triggerUpdate() = ensureSchedulerStarted(); await scheduler.trigger()
TriggerUpdate == Apply(TriggerSync(EnsureSchedulerStartedSync(Snap)))

\* ------------------------------------------- the pass (performUpdate)
\* performUpdate of invocation i settles: its promise is fulfilled with a
\* summary or rejected with an error.
Settle(i, outcome) ==
  /\ execs' = [execs EXCEPT ![i].pc = "settled", ![i].outcome = Some(outcome)]
  /\ lastOutcome' = Some(outcome)
  /\ lastOk' = IF outcome.ok THEN Some(outcome.value) ELSE lastOk

\* resolvePublicAddresses returned: collectZoneTargets issues listZones
ResolveReturns(i) ==
  /\ ~MicrotaskPending
  /\ execs[i].pc = "resolve"
  /\ execs' = [execs EXCEPT ![i].pc = "discover", ![i].calls = 1]
  /\ UNCHANGED <<shouldAutoStart, schedulerStarted, timer, running, lastSuccess,
                 lastError, intervals, nextHandle, nextExec, lastDone,
                 lastOutcome, lastOk>>

\* resolvePublicAddresses threw: performUpdate rejects before any provider call
ResolveFails(i) ==
  /\ ~MicrotaskPending
  /\ execs[i].pc = "resolve"
  /\ Settle(i, Err(ResolutionError))
  /\ UNCHANGED <<shouldAutoStart, schedulerStarted, timer, running, lastSuccess,
                 lastError, intervals, nextHandle, nextExec, lastDone>>

\* The outstanding provider call returned and the pass issues its next call:
\* another list call of discovery, or a call of reconcileHostname.
CallReturnsNext(i) ==
  /\ ~MicrotaskPending
  /\ execs[i].pc \in {"discover", "reconcile"}
  /\ execs[i].calls < MaxCalls
  /\ \E next \in {"discover", "reconcile"} :
       /\ execs[i].pc = "reconcile" => next = "reconcile"
       /\ execs' = [execs EXCEPT ![i].pc = next, ![i].calls = @ + 1]
  /\ UNCHANGED <<shouldAutoStart, schedulerStarted, timer, running, lastSuccess,
                 lastError, intervals, nextHandle, nextExec, lastDone,
                 lastOutcome, lastOk>>

\* The outstanding provider call returned and nothing is left to do:
\* performUpdate returns its summary.
CallReturnsLast(i) ==
  /\ ~MicrotaskPending
  /\ execs[i].pc \in {"discover", "reconcile"}
  /\ Settle(i, Ok(Summary(i)))
  /\ UNCHANGED <<shouldAutoStart, schedulerStarted, timer, running, lastSuccess,
                 lastError, intervals, nextHandle, nextExec, lastDone>>

\* A discovery list call returned and collectZoneTargets threw: no zones, or
\* no zone for a configured hostname or zone name.
DiscoveryFails(i) ==
  /\ ~MicrotaskPending
  /\ execs[i].pc = "discover"
  /\ Settle(i, Err(DiscoveryError))
  /\ UNCHANGED <<shouldAutoStart, schedulerStarted, timer, running, lastSuccess,
                 lastError, intervals, nextHandle, nextExec, lastDone>>

\* The outstanding provider call failed: CloudflareApiError propagates
CallFails(i) ==
  /\ ~MicrotaskPending
  /\ execs[i].pc \in {"discover", "reconcile"}
  /\ \E error \in ApiErrors : Settle(i, Err(error))
  /\ UNCHANGED <<shouldAutoStart, schedulerStarted, timer, running, lastSuccess,
                 lastError, intervals, nextHandle, nextExec, lastDone>>

\* ------------------------------------------------------ continuations
\* execute() with a catch-up: when requests were skipped during the pass,
\* the finally clause starts the next pass at once.
ExecuteResume_CatchesUp(i) ==
  /\ execs[i].pc = "settled"
  /\ LET outcome == Get(execs[i].outcome)
         caught == outcome.ok \/ Catches(outcome.value)
         recorded == IF outcome.ok
                     THEN RecordSuccess(outcome.value, lastSuccess, lastError)
                     ELSE IF caught
                     THEN RecordFailure(outcome.value, lastSuccess, lastError)
                     ELSE [lastSuccess |-> lastSuccess, lastError |-> lastError]
         done == [execs[i] EXCEPT !.pc = IF caught THEN "done" ELSE "rejected"]
         awaited == execs[i].origin = "trigger" /\ caught
         rest == IF awaited THEN [execs EXCEPT ![i] = done] ELSE Without(execs, i)
         catchUp == nextExec > i + 1 /\ nextExec <= MaxExec
     IN /\ lastSuccess' = recorded.lastSuccess
        /\ lastError' = recorded.lastError
        /\ running' = (catchUp \/ RunningAfterPass(outcome))
        /\ lastDone' = IF awaited THEN lastDone ELSE Some(done)
        /\ execs' = IF catchUp
                    THEN (nextExec :> NewExec(nextExec, "tick", "resolve", FALSE)) @@ rest
                    ELSE rest
        /\ nextExec' = IF catchUp THEN nextExec + 1 ELSE nextExec
  /\ UNCHANGED <<shouldAutoStart, schedulerStarted, timer, intervals, nextHandle,
                 lastOutcome, lastOk>>

\* execute() resumes after `await performUpdate`: try/catch/finally.  An
\* invocation made with `void execute()` has then finished; trigger() awaits
\* its own.  A thrown value the catch clause did not catch would leave
\* execute() through finally and reject its promise.
ExecuteResume(i) ==
  /\ execs[i].pc = "settled"
  /\ LET outcome == Get(execs[i].outcome)
         caught == outcome.ok \/ Catches(outcome.value)
         recorded == IF outcome.ok
                     THEN RecordSuccess(outcome.value, lastSuccess, lastError)
                     ELSE IF caught
                     THEN RecordFailure(outcome.value, lastSuccess, lastError)
                     ELSE [lastSuccess |-> lastSuccess, lastError |-> lastError]
         done == [execs[i] EXCEPT !.pc = IF caught THEN "done" ELSE "rejected"]
     IN /\ lastSuccess' = recorded.lastSuccess
        /\ lastError' = recorded.lastError
        /\ running' = RunningAfterPass(outcome)
        /\ IF execs[i].origin = "trigger" /\ caught
           THEN execs' = [execs EXCEPT ![i] = done] /\ UNCHANGED lastDone
           ELSE execs' = Without(execs, i) /\ lastDone' = Some(done)
  /\ UNCHANGED <<shouldAutoStart, schedulerStarted, timer, intervals, nextHandle,
                 nextExec, lastOutcome, lastOk>>

\* trigger() resumes after `await execute()`: return lastSuccess ?? null
TriggerReturn(i) ==
  /\ execs[i].origin = "trigger"
  /\ execs[i].pc = "done"
  /\ ~(\E j \in Live : execs[j].pc = "settled")
  /\ execs' = Without(execs, i)
  /\ lastDone' = Some([execs[i] EXCEPT !.pc = "returned",
                                       !.ret = Some(TriggerResult(lastSuccess))])
  /\ UNCHANGED <<shouldAutoStart, schedulerStarted, timer, running, lastSuccess,
                 lastError, intervals, nextHandle, nextExec, lastOutcome, lastOk>>

\* ---------------------------------------------------------- snapshot
\* scheduler.ts:96-100 with the running field always false
snapshot_NeverRunning(flag, success, error) ==
  [running |-> FALSE, lastSuccess |-> success, lastError |-> error]

\* scheduler.ts:96-100: the object snapshot() returns
snapshot(flag, success, error) ==
  [running |-> flag, lastSuccess |-> success, lastError |-> error]

\* scheduler.snapshot(), which the dashboard calls (dashboard/status.ts:117).
\* The caller is an async function of a request handler, and may run it
\* among the continuations of settled promises: it is enabled in every state.
Snapshot ==
  /\ snapshotResult' = Some(snapshot(running, lastSuccess, lastError))
  /\ UNCHANGED <<shouldAutoStart, schedulerStarted, timer, running, lastSuccess,
                 lastError, intervals, nextHandle, execs, nextExec, lastDone,
                 lastOutcome, lastOk>>

Next ==
  \/ EnsureSchedulerStarted /\ snapshotResult' = None /\ UNCHANGED outsideScheduler
  \/ Start /\ snapshotResult' = None /\ UNCHANGED outsideScheduler
  \/ Stop /\ snapshotResult' = None /\ UNCHANGED outsideScheduler
  \/ Tick /\ snapshotResult' = None /\ UNCHANGED outsideScheduler
  \/ Trigger /\ snapshotResult' = None /\ UNCHANGED outsideScheduler
  \/ TriggerUpdate /\ snapshotResult' = None /\ UNCHANGED outsideScheduler
  \/ \E i \in Live : ResolveReturns(i) /\ snapshotResult' = None /\ UNCHANGED outsideScheduler
  \/ \E i \in Live : ResolveFails(i) /\ snapshotResult' = None /\ UNCHANGED outsideScheduler
  \/ \E i \in Live : CallReturnsNext(i) /\ snapshotResult' = None /\ UNCHANGED outsideScheduler
  \/ \E i \in Live : CallReturnsLast(i) /\ snapshotResult' = None /\ UNCHANGED outsideScheduler
  \/ \E i \in Live : DiscoveryFails(i) /\ snapshotResult' = None /\ UNCHANGED outsideScheduler
  \/ \E i \in Live : CallFails(i) /\ snapshotResult' = None /\ UNCHANGED outsideScheduler
  \/ \E i \in Live : ExecuteResume(i) /\ snapshotResult' = None /\ UNCHANGED outsideScheduler
  \/ \E i \in Live : TriggerReturn(i) /\ snapshotResult' = None /\ UNCHANGED outsideScheduler
  \/ Snapshot /\ UNCHANGED outsideScheduler

Spec == Init /\ [][Next]_vars

\* ------------------------------------------------------------- claims
PassesInFlight == {i \in Live : InFlight(execs[i])}

\* The execute() invocations made by the current step.
NewIds == nextExec .. (nextExec' - 1)

NewExecs ==
  {execs'[i] : i \in (DOMAIN execs') \cap NewIds}
    \cup (IF IsSome(lastDone') /\ Get(lastDone').id \in NewIds
          THEN {Get(lastDone')} ELSE {})

\* C1: at most one pass (one performUpdate execution) of the scheduler is in
\* progress at any time, whatever the interleaving of start(), ticks and
\* trigger() calls.
C1_SingleFlight == Cardinality(PassesInFlight) <= 1

\* A request was made while a pass was in flight, and the pass is still the
\* only one.
C1_Witness ==
  /\ IsSome(lastDone) /\ Get(lastDone).skipped
  /\ \E i \in PassesInFlight : i < Get(lastDone).id

\* C2: a step that requests a pass while one is running starts none: every
\* invocation it makes is skipped with no provider call, the passes in flight
\* and their call counts are untouched, and running, lastSuccess, lastError
\* and the provider-call count keep their values; the continuation of the
\* pass in flight then records that pass's own outcome.
C2_SkipIsNoOp ==
  [][ /\ (running /\ NewIds # {}) =>
           /\ \A e \in NewExecs : e.skipped /\ e.calls = 0 /\ e.pc = "done"
           /\ Cardinality(NewExecs) = Cardinality(NewIds)
           /\ \A i \in PassesInFlight :
                 i \in DOMAIN execs' /\ execs'[i] = execs[i]
           /\ running' = running
           /\ lastSuccess' = lastSuccess
           /\ lastError' = lastError
           /\ ProviderCalls(execs') = ProviderCalls(execs)
      /\ \A i \in Live :
           (execs[i].pc = "settled" /\ lastError' # lastError) =>
             LET outcome == Get(execs[i].outcome)
             IN IF outcome.ok THEN lastError' = None
                ELSE IsSome(lastError') /\ Get(lastError').message = outcome.value.message
      /\ \A i \in Live :
           (execs[i].pc = "settled" /\ lastSuccess' # lastSuccess) =>
             /\ Get(execs[i].outcome).ok
             /\ lastSuccess' = Some(Get(execs[i].outcome).value)
    ]_vars

\* trigger() was skipped while a pass with provider calls behind it is in flight.
C2_Witness ==
  \E i \in PassesInFlight, j \in Live :
    /\ execs[i].calls >= 1
    /\ execs[j].skipped /\ execs[j].origin = "trigger" /\ j > i

\* The invocation that finished last, when it ran a pass to its end.
DonePass == IsSome(lastDone) /\ ~Get(lastDone).skipped /\ IsSome(Get(lastDone).outcome)

DoneOutcome == Get(Get(lastDone).outcome)

\* The continuation of execute() runs for invocation i in the current step.
Resumes(i) ==
  /\ i \in Live
  /\ execs[i].pc = "settled"
  /\ (i \notin DOMAIN execs' \/ execs'[i].pc # "settled")

\* C3 (as claimed): a trigger() that launched a pass returns that pass's
\* summary when the pass succeeded and null whenever the pass failed.
C3_TriggerReturnsOwnResult ==
  (DonePass /\ Get(lastDone).origin = "trigger" /\ Get(lastDone).pc = "returned") =>
    Get(Get(lastDone).ret) =
      (IF DoneOutcome.ok THEN Some(DoneOutcome.value) ELSE None)

\* C4: when a pass fails, lastError becomes the captured error: its message
\* always, and HTTP status, provider error list and raw body exactly when the
\* error is a CloudflareApiError; lastSuccess keeps its value.
C4_FailureRecorded ==
  [][ \A i \in Live :
        (Resumes(i) /\ ~Get(execs[i].outcome).ok) =>
          LET error == Get(execs[i].outcome).value
          IN /\ lastSuccess' = lastSuccess
             /\ IsSome(lastError')
             /\ Get(lastError').message = error.message
             /\ IF error.class = "CloudflareApiError"
                THEN /\ DOMAIN Get(lastError') =
                          {"message", "status", "apiErrors", "responseBody"}
                     /\ Get(lastError').status = error.status
                     /\ Get(lastError').apiErrors = error.errors
                     /\ Get(lastError').responseBody = error.body
                ELSE DOMAIN Get(lastError') = {"message"}
    ]_vars

\* A pass failed on a provider call after an earlier pass had succeeded: the
\* provider detail is recorded and the stale success is still there.
C4_Witness ==
  /\ DonePass /\ ~DoneOutcome.ok /\ DoneOutcome.value.class = "CloudflareApiError"
  /\ IsSome(lastSuccess) /\ Get(lastSuccess).timestamp < Get(lastDone).id
  /\ IsSome(lastError) /\ "status" \in DOMAIN Get(lastError)

\* C5: when a pass completes successfully, lastSuccess becomes that pass's
\* Update Summary and lastError becomes empty.
C5_SuccessRecorded ==
  [][ \A i \in Live :
        (Resumes(i) /\ Get(execs[i].outcome).ok) =>
          /\ lastSuccess' = Some(Get(execs[i].outcome).value)
          /\ lastSuccess' = Some(Summary(i))
          /\ lastError' = None
    ]_vars

\* A later pass than the first succeeded after one provider call, and its
\* summary is recorded with no error left.
C5_Witness ==
  /\ DonePass /\ DoneOutcome.ok
  /\ IsSome(lastOutcome) /\ Get(lastOutcome).ok
  /\ Get(lastDone).id > 1 /\ Get(lastDone).calls = 1
  /\ lastSuccess = Some(Summary(Get(lastDone).id)) /\ lastError = None

\* C6: whenever the scheduler is idle and some pass has completed, lastError
\* is present exactly when the pass that completed last failed, and
\* lastSuccess is the summary of the last successful pass (absent only when
\* no pass ever succeeded).
C6_StatusReflectsLastOutcome ==
  (~running /\ IsSome(lastOutcome)) =>
    /\ IsSome(lastError) <=> ~Get(lastOutcome).ok
    /\ lastSuccess = lastOk

\* Idle after a failed pass that followed a successful one.
C6_Witness ==
  /\ ~running /\ IsSome(lastOutcome) /\ ~Get(lastOutcome).ok
  /\ IsSome(lastOk) /\ lastSuccess = lastOk /\ IsSome(lastError)

\* The current step is the interval callback: it makes one execute()
\* invocation, marked as coming from the timer.
TickStep == \E e \in NewExecs : e.origin = "tick"

\* C7: no error raised inside a pass escapes execute(): the failure is
\* recorded as lastError, the timer stays armed after a failed pass, and a
\* tick that finds the scheduler idle launches a new pass.
C7_FailureContained ==
  /\ [](\A i \in Live : execs[i].pc # "rejected")
  /\ [](IsSome(lastDone) => Get(lastDone).pc # "rejected")
  /\ [][ /\ \A i \in Live :
              (Resumes(i) /\ ~Get(execs[i].outcome).ok) =>
                /\ IsSome(lastError')
                /\ timer' = timer
                /\ intervals' = intervals
                /\ running' = FALSE
         /\ (TickStep /\ ~running) =>
              \E e \in NewExecs : e.origin = "tick" /\ e.pc = "resolve" /\ running'
       ]_vars

\* A pass launched by a tick failed with a plain Error, the timer is still
\* armed, and the next tick has launched a new pass.
C7_Witness ==
  /\ DonePass /\ Get(lastDone).origin = "tick" /\ ~DoneOutcome.ok
  /\ DoneOutcome.value.class = "Error"
  /\ IsSome(lastError) /\ IsSome(timer)
  /\ \E i \in PassesInFlight : execs[i].origin = "tick" /\ i > Get(lastDone).id

\* C8: running is false initially and true exactly while a pass is in
\* progress: it is false again after every pass that ends, so a request made
\* when no pass is in progress always starts one.
C8_RunningIffPassInFlight ==
  /\ [](running <=> PassesInFlight # {})
  /\ [][ (NewIds # {} /\ PassesInFlight = {}) =>
            \E e \in NewExecs : e.id = nextExec /\ e.pc = "resolve" /\ ~e.skipped
        ]_vars

\* A pass has failed, the flag is false again and no pass is in progress.
C8_Witness ==
  /\ DonePass /\ ~DoneOutcome.ok /\ Get(lastDone).pc = "done"
  /\ ~running /\ PassesInFlight = {}

\* The current step is a start() call that arms the timer.
ArmingStep == timer = None /\ IsSome(timer')

\* C9 (as claimed): the first start() call launches exactly one pass
\* immediately and arms exactly one timer.
C9_FirstStartLaunchesPass ==
  [][ (ArmingStep /\ nextHandle = 1) =>
        /\ \E e \in NewExecs : e.origin = "start" /\ e.pc = "resolve" /\ ~e.skipped
        /\ Cardinality(intervals') = 1
    ]_vars

\* C9 (amended): a start() call on a scheduler that is not started makes
\* exactly one execute() request, which launches one pass unless a pass is
\* already running (then it is the single-flight no-op), and arms exactly one
\* timer; while the scheduler is started no start() call launches a pass or
\* arms a second timer, so at most one interval is ever active.
C9_StartIdempotent ==
  /\ [](intervals = IF IsSome(timer) THEN {Get(timer)} ELSE {})
  /\ [][ /\ ArmingStep =>
              /\ Cardinality({e \in NewExecs : e.origin = "start"}) = 1
              /\ \A e \in NewExecs :
                    e.origin = "start" =>
                      /\ e.id = nextExec
                      /\ e.skipped <=> running
                      /\ e.pc = IF running THEN "done" ELSE "resolve"
              /\ intervals' = {Get(timer')}
         /\ (\E e \in NewExecs : e.origin = "start") => ArmingStep
         /\ IsSome(timer) => (timer' = timer \/ timer' = None)
       ]_vars

\* start() was called while a pass launched by trigger() was running: the
\* request was skipped and one timer is armed.
C9_Witness ==
  /\ IsSome(lastDone) /\ Get(lastDone).origin = "start" /\ Get(lastDone).skipped
  /\ IsSome(timer) /\ Cardinality(intervals) = 1
  /\ \E i \in PassesInFlight : execs[i].origin = "trigger" /\ i < Get(lastDone).id

\* The next job of the pass of invocation i.
PassStep(i) ==
  \/ ResolveReturns(i) \/ ResolveFails(i) \/ CallReturnsLast(i)
  \/ CallFails(i) \/ ExecuteResume(i)

\* C10: once stop() has run no interval is active, so no tick launches a
\* pass until start() is called again; stop() leaves a pass in flight as it
\* is, the pass can go on, and its continuation records its outcome in
\* lastSuccess/lastError as usual.
C10_StopCancelsOnlyTheTimer ==
  /\ [](timer = None => intervals = {})
  /\ [](\A i \in PassesInFlight :
          (execs[i].stopped /\ (execs[i].pc = "settled" \/ ~MicrotaskPending)) =>
            ENABLED PassStep(i))
  /\ [][ /\ TickStep => IsSome(timer) /\ Get(timer) \in intervals
         /\ (IsSome(timer) /\ timer' = None) =>
              /\ running' = running
              /\ lastSuccess' = lastSuccess
              /\ lastError' = lastError
              /\ \A i \in PassesInFlight :
                    /\ i \in DOMAIN execs'
                    /\ execs'[i] = [execs[i] EXCEPT !.stopped = TRUE]
         /\ \A i \in Live :
              (Resumes(i) /\ execs[i].stopped) =>
                LET outcome == Get(execs[i].outcome)
                IN /\ running' = FALSE
                   /\ IF outcome.ok
                      THEN lastSuccess' = Some(outcome.value) /\ lastError' = None
                      ELSE /\ lastSuccess' = lastSuccess
                           /\ IsSome(lastError')
                           /\ Get(lastError').message = outcome.value.message
       ]_vars

\* stop() ran while a pass was in flight; the pass went on to succeed and its
\* summary is recorded, with the timer still cancelled.
C10_Witness ==
  /\ DonePass /\ Get(lastDone).stopped /\ DoneOutcome.ok
  /\ timer = None /\ intervals = {}
  /\ lastSuccess = Some(DoneOutcome.value) /\ lastError = None /\ ~running

\* ====================================================================
\* Target discovery: update/targets.ts
\* ====================================================================
\* A string is the sequence of its characters.  The characters that occur,
\* in the order of their UTF-16 code units.
CodeUnits ==
  <<" ", ",", "-", ".", "0", "1", "5", "6",
    "A", "C", "E", "F", "L", "R", "S", "T", "U", "W",
    "a", "b", "c", "e", "f", "k", "l", "o", "q", "r", "s", "t", "u", "w", "x", "z">>
Whitespace == {" "}
UpperCase == <<"A", "C", "E", "F", "L", "R", "S", "T", "U", "W">>
LowerCase == <<"a", "c", "e", "f", "l", "r", "s", "t", "u", "w">>

Code(ch) == CHOOSE i \in DOMAIN CodeUnits : CodeUnits[i] = ch

\* String.prototype.trim
RECURSIVE trim(_)
trim(str) ==
  IF str = <<>> THEN str
  ELSE IF Head(str) \in Whitespace THEN trim(Tail(str))
  ELSE IF str[Len(str)] \in Whitespace THEN trim(SubSeq(str, 1, Len(str) - 1))
  ELSE str

\* String.prototype.toLowerCase
toLowerCase(str) ==
  [k \in DOMAIN str |->
     IF \E u \in DOMAIN UpperCase : UpperCase[u] = str[k]
     THEN LowerCase[CHOOSE u \in DOMAIN UpperCase : UpperCase[u] = str[k]]
     ELSE str[k]]

\* String.prototype.endsWith
endsWith(str, suffix) ==
  /\ Len(suffix) <= Len(str)
  /\ SubSeq(str, Len(str) - Len(suffix) + 1, Len(str)) = suffix

\* The order of the default Array.prototype.sort: by UTF-16 code units, a
\* proper prefix first.
RECURSIVE StrLess(_, _)
StrLess(a, b) ==
  IF a = <<>> THEN b # <<>>
  ELSE IF b = <<>> THEN FALSE
  ELSE IF Head(a) = Head(b) THEN StrLess(Tail(a), Tail(b))
  ELSE Code(Head(a)) < Code(Head(b))

RECURSIVE insertSorted(_, _)
insertSorted(sorted, str) ==
  IF sorted = <<>> THEN <<str>>
  ELSE IF StrLess(str, Head(sorted)) THEN <<str>> \o sorted
  ELSE <<Head(sorted)>> \o insertSorted(Tail(sorted), str)

\* Array.prototype.sort() without a comparator, on strings
RECURSIVE sort(_)
sort(strs) ==
  IF strs = <<>> THEN <<>>
  ELSE insertSorted(sort(SubSeq(strs, 1, Len(strs) - 1)), strs[Len(strs)])

\* targets.ts:10
HOST_RECORD_TYPES == {"A", "AAAA", "CNAME"}

\* targets.ts:12
normalizeHostname(value) == toLowerCase(trim(value))

\* A Map is the sequence of its entries [key, value] in insertion order.
MapHas(map, key) == \E k \in DOMAIN map : map[k].key = key
MapGet(map, key) == map[CHOOSE k \in DOMAIN map : map[k].key = key].value
MapSet(map, key, value) ==
  IF MapHas(map, key)
  THEN [k \in DOMAIN map |->
          IF map[k].key = key THEN [key |-> key, value |-> value] ELSE map[k]]
  ELSE Append(map, [key |-> key, value |-> value])
MapValues(map) == [k \in DOMAIN map |-> map[k].value]

\* new Map(entries): a later entry replaces the value of an equal key
RECURSIVE MapOf(_)
MapOf(entries) ==
  IF entries = <<>> THEN <<>>
  ELSE MapSet(MapOf(SubSeq(entries, 1, Len(entries) - 1)),
              entries[Len(entries)].key, entries[Len(entries)].value)

\* targets.ts:14-26
appendHostname(buckets, zoneId, hostname) ==
  LET canonical == normalizeHostname(hostname)
      bucket == IF MapHas(buckets, zoneId) THEN MapGet(buckets, zoneId) ELSE <<>>
  IN MapSet(buckets, zoneId,
            IF MapHas(bucket, canonical) THEN bucket
            ELSE MapSet(bucket, canonical, hostname))

\* targets.ts:33, the test of one zone
zoneMatches_NoBoundary(canonical, zoneName) ==
  canonical = zoneName \/ endsWith(canonical, zoneName)

zoneMatches(canonical, zoneName) ==
  canonical = zoneName \/ endsWith(canonical, <<".">> \o zoneName)

\* targets.ts:34, whether the zone replaces the match found so far
betterMatch(match, zoneName) ==
  match = None \/ Len(zoneName) > Len(normalizeHostname(Get(match).name))

\* targets.ts:28-40; the result is None for null
RECURSIVE findZoneLoop(_, _, _)
findZoneLoop(canonical, zones, match) ==
  IF zones = <<>> THEN match
  ELSE LET zone == Head(zones)
           zoneName == normalizeHostname(zone.name)
       IN findZoneLoop(canonical, Tail(zones),
            IF zoneMatches(canonical, zoneName) /\ betterMatch(match, zoneName)
            THEN Some(zone) ELSE match)

findZoneForHostname(hostname, zones) ==
  findZoneLoop(normalizeHostname(hostname), zones, None)

\* targets.ts:42-45; the blacklist is the set of its normalized entries
isBlacklisted(hostname, blacklist) == normalizeHostname(hostname) \in blacklist

\* The loop without the test of the record's type (targets.ts:53-55)
RECURSIVE collectLoop_AllTypes(_, _, _)
collectLoop_AllTypes(records, blacklist, bucket) ==
  IF records = <<>> THEN bucket
  ELSE LET record == Head(records)
           canonical == normalizeHostname(record.name)
       IN collectLoop_AllTypes(Tail(records), blacklist,
            IF isBlacklisted(record.name, blacklist) THEN bucket
            ELSE IF MapHas(bucket, canonical) THEN bucket
            ELSE MapSet(bucket, canonical, record.name))

\* targets.ts:47-65
RECURSIVE collectLoop(_, _, _)
collectLoop(records, blacklist, bucket) ==
  IF records = <<>> THEN bucket
  ELSE LET record == Head(records)
           canonical == normalizeHostname(record.name)
       IN collectLoop(Tail(records), blacklist,
            IF record.type \notin HOST_RECORD_TYPES THEN bucket
            ELSE IF isBlacklisted(record.name, blacklist) THEN bucket
            ELSE IF MapHas(bucket, canonical) THEN bucket
            ELSE MapSet(bucket, canonical, record.name))

collectHostnamesFromZoneRecords(records, blacklist) ==
  MapValues(collectLoop(records, blacklist, <<>>))

\* The errors collectZoneTargets throws (targets.ts:70, 90, 99).
NoZonesAvailable ==
  [class |-> "Error", message |-> "No Cloudflare zones available for the configured token"]
NoZoneForHostname(hostname) ==
  [class |-> "Error", message |-> "No Cloudflare zone found for hostname", subject |-> hostname]
NoZoneForDomain(zoneName) ==
  [class |-> "Error", message |-> "No Cloudflare zone found for domain", subject |-> zoneName]

\* targets.ts:85, whether the explicit hostname is passed over
skipsExplicit(hostname, blacklist) == isBlacklisted(hostname, blacklist)

\* targets.ts:84-93, the loop over config.hostnameTargets
RECURSIVE hostnameLoop_SkipsUnowned(_, _, _, _)
hostnameLoop_SkipsUnowned(hostnames, zones, blacklist, buckets) ==
  IF hostnames = <<>> THEN Ok(buckets)
  ELSE LET hostname == Head(hostnames)
           zone == findZoneForHostname(hostname, zones)
       IN IF skipsExplicit(hostname, blacklist) \/ zone = None
          THEN hostnameLoop_SkipsUnowned(Tail(hostnames), zones, blacklist, buckets)
          ELSE hostnameLoop_SkipsUnowned(Tail(hostnames), zones, blacklist,
                 appendHostname(buckets, Get(zone).id, hostname))

RECURSIVE hostnameLoop(_, _, _, _)
hostnameLoop(hostnames, zones, blacklist, buckets) ==
  IF hostnames = <<>> THEN Ok(buckets)
  ELSE LET hostname == Head(hostnames)
           zone == findZoneForHostname(hostname, zones)
       IN IF skipsExplicit(hostname, blacklist)
          THEN hostnameLoop(Tail(hostnames), zones, blacklist, buckets)
          ELSE IF zone = None THEN Err(NoZoneForHostname(hostname))
          ELSE hostnameLoop(Tail(hostnames), zones, blacklist,
                            appendHostname(buckets, Get(zone).id, hostname))

RECURSIVE appendAll(_, _, _)
appendAll(buckets, zoneId, names) ==
  IF names = <<>> THEN buckets
  ELSE appendAll(appendHostname(buckets, zoneId, Head(names)), zoneId, Tail(names))

\* targets.ts:95-111, the loop over config.zoneTargets; recordsOf[id] is the
\* answer of listDnsRecords(id)
RECURSIVE zoneLoop(_, _, _, _, _)
zoneLoop(zoneNames, zonesByName, recordsOf, blacklist, buckets) ==
  IF zoneNames = <<>> THEN Ok(buckets)
  ELSE LET zoneName == Head(zoneNames)
           normalizedZoneName == normalizeHostname(zoneName)
       IN IF ~MapHas(zonesByName, normalizedZoneName)
          THEN Err(NoZoneForDomain(zoneName))
          ELSE LET zone == MapGet(zonesByName, normalizedZoneName)
                   names == collectHostnamesFromZoneRecords(recordsOf[zone.id], blacklist)
               IN zoneLoop(Tail(zoneNames), zonesByName, recordsOf, blacklist,
                    appendAll(appendHostname(buckets, zone.id, zone.name),
                              zone.id, names))

\* The results without `.sort()` (targets.ts:120)
results_InsertionOrder(buckets, zonesById) ==
  [k \in DOMAIN buckets |->
     [zone |-> MapGet(zonesById, buckets[k].key),
      hostnames |-> MapValues(buckets[k].value)]]

\* targets.ts:113-122
results(buckets, zonesById) ==
  [k \in DOMAIN buckets |->
     [zone |-> MapGet(zonesById, buckets[k].key),
      hostnames |-> sort(MapValues(buckets[k].value))]]

\* targets.ts:67-131, given the provider's answers: the zones listZones
\* returns and the records listDnsRecords returns for each zone.
collectZoneTargets(zones, recordsOf, config) ==
  IF Len(zones) = 0 THEN Err(NoZonesAvailable)
  ELSE
    LET blacklist == {normalizeHostname(config.blacklist[k]) : k \in DOMAIN config.blacklist}
        zonesByName ==
          MapOf([k \in DOMAIN zones |->
                   [key |-> normalizeHostname(zones[k].name), value |-> zones[k]]])
        zonesById ==
          MapOf([k \in DOMAIN zones |-> [key |-> zones[k].id, value |-> zones[k]]])
        explicit == hostnameLoop(config.hostnameTargets, zones, blacklist, <<>>)
    IN IF ~explicit.ok THEN explicit
       ELSE LET all == zoneLoop(config.zoneTargets, zonesByName, recordsOf,
                                blacklist, explicit.value)
            IN IF ~all.ok THEN all
               ELSE Ok(results(all.value, zonesById))

\* ------------------------------------------ the inputs of target discovery
\* Names: e.c is a zone, a.e.c a zone below it; xe.c ends with "e.c" but is
\* no name of that zone.
e_c == <<"e", ".", "c">>
E_C == <<"E", ".", "C">>
a_e_c == <<"a", ".", "e", ".", "c">>
w_e_c == <<"w", ".", "e", ".", "c">>
W_e_c == <<"W", ".", "e", ".", "c">>
q_e_c == <<"q", ".", "e", ".", "c">>
s_a_e_c == <<"s", ".", "a", ".", "e", ".", "c">>
xe_c == <<"x", "e", ".", "c">>
q_z == <<"q", ".", "z">>

zoneE == [id |-> "zoneE", name |-> e_c]
zoneA == [id |-> "zoneA", name |-> a_e_c]
zoneQ == [id |-> "zoneQ", name |-> q_z]
ZoneIds == {"zoneE", "zoneA", "zoneQ"}

\* What listZones may answer: the zones the token can see, in provider order.
ZoneLists ==
  {<<>>, <<zoneE>>, <<zoneA>>, <<zoneQ>>, <<zoneE, zoneA>>, <<zoneA, zoneE>>}

Rec(type, name) == [type |-> type, name |-> name]

\* What listDnsRecords(zone) may answer.  Every record of a zone is named by
\* the zone's name or a name below it; the parent zone e.c can hold records
\* for names below the zone a.e.c.
RecordLists ==
  [zoneE |-> {<<>>,
              <<Rec("A", w_e_c), Rec("AAAA", w_e_c), Rec("TXT", q_e_c),
                Rec("CNAME", s_a_e_c), Rec("A", e_c)>>},
   zoneA |-> {<<Rec("A", s_a_e_c), Rec("MX", a_e_c)>>},
   zoneQ |-> {<<>>}]

\* config.ts:80-85 (parseList): the entries are trimmed and not empty.
HostnameTargets == {w_e_c, W_e_c, s_a_e_c, xe_c}
ZoneTargets == {E_C, a_e_c}
Blacklists == {<<>>, <<W_e_c>>, <<e_c>>, <<s_a_e_c>>, <<xe_c>>}

RECURSIVE SeqsUpTo(_, _)
SeqsUpTo(S, n) ==
  IF n = 0 THEN {<<>>}
  ELSE LET shorter == SeqsUpTo(S, n - 1)
       IN shorter \cup {Append(q, x) : q \in shorter, x \in S}

\* config.ts:86-93 (loadConfig): not both lists are empty.
DiscoveryConfigs ==
  {c \in [hostnameTargets : SeqsUpTo(HostnameTargets, MaxTargets),
          zoneTargets : SeqsUpTo(ZoneTargets, MaxTargets),
          blacklist : Blacklists] :
     Len(c.hostnameTargets) + Len(c.zoneTargets) > 0}

DiscoveryInit ==
  /\ SchedulerIdle
  /\ ResolverIdle
  /\ UpdateIdle
  /\ ClientIdle
  /\ BootIdle
  /\ \E zones \in ZoneLists, config \in DiscoveryConfigs :
       \E recordsOf \in [{zones[k].id : k \in DOMAIN zones} ->
                           UNION {RecordLists[z] : z \in ZoneIds}] :
         /\ \A z \in DOMAIN recordsOf : recordsOf[z] \in RecordLists[z]
         /\ tInput = [zones |-> zones, recordsOf |-> recordsOf, config |-> config]
  /\ tResult = None

\* collectZoneTargets(client, config), with the provider answering
Collect ==
  /\ tResult = None
  /\ tResult' = Some([fn |-> "collectZoneTargets",
                      out |-> collectZoneTargets(tInput.zones, tInput.recordsOf,
                                                 tInput.config)])
  /\ UNCHANGED <<tInput, outsideDiscovery>>

\* findZoneForHostname(hostname, zones) for an explicit hostname (targets.ts:88)
Find ==
  /\ tResult = None
  /\ \E k \in DOMAIN tInput.config.hostnameTargets :
       tResult' = Some([fn |-> "findZoneForHostname",
                        hostname |-> tInput.config.hostnameTargets[k],
                        out |-> findZoneForHostname(tInput.config.hostnameTargets[k],
                                                    tInput.zones)])
  /\ UNCHANGED <<tInput, outsideDiscovery>>

DiscoveryNext ==
  \/ Collect
  \/ Find

SpecDiscovery == DiscoveryInit /\ [][DiscoveryNext]_vars

\* ------------------------------------------------- claims on discovery
Applied(fn) == IsSome(tResult) /\ Get(tResult).fn = fn

\* The name is the zone's name or a name below it: the zone name preceded by
\* a '.' that is part of the name.
NameOfZone(name, zoneName) ==
  \/ name = zoneName
  \/ \E p \in DOMAIN name :
       name[p] = "." /\ SubSeq(name, p + 1, Len(name)) = zoneName

\* The visible zones (positions in listZones' answer) owning the hostname.
MatchingZones(hostname, zones) ==
  {k \in DOMAIN zones :
     NameOfZone(normalizeHostname(hostname), normalizeHostname(zones[k].name))}

\* C17: findZoneForHostname returns a zone whose (trimmed, lower-cased) name
\* is the hostname or follows a '.' at the hostname's end, and no matching
\* zone has a longer name; it returns null exactly when no zone matches.  A
\* zone whose name is a suffix without the '.' boundary never matches.
C17_LongestMatchingZone ==
  Applied("findZoneForHostname") =>
    LET r == Get(tResult)
        matching == MatchingZones(r.hostname, tInput.zones)
    IN /\ r.out = None <=> matching = {}
       /\ IsSome(r.out) =>
            /\ \E k \in matching : tInput.zones[k] = Get(r.out)
            /\ \A k \in matching :
                 Len(normalizeHostname(tInput.zones[k].name))
                   <= Len(normalizeHostname(Get(r.out).name))

\* Two zones match s.a.e.c, the shorter one listed last; the longer is returned.
C17_Witness ==
  /\ Applied("findZoneForHostname")
  /\ tInput.zones = <<zoneA, zoneE>>
  /\ Get(tResult).hostname = s_a_e_c
  /\ Get(tResult).out = Some(zoneA)

\* The per-zone target sets collectZoneTargets returned, if it returned.
Returned == Applied("collectZoneTargets") /\ Get(tResult).out.ok
Targets == Get(tResult).out.value
BlacklistSet ==
  {normalizeHostname(tInput.config.blacklist[k]) : k \in DOMAIN tInput.config.blacklist}

\* C15: no hostname whose trimmed, lower-cased form is in the blacklist
\* appears in any zone's target set returned by collectZoneTargets, whether
\* it came from the explicit hostname list, from a configured zone (the
\* zone's own name included) or from the zone's enumerated records.
C15_BlacklistedNeverTargeted ==
  Returned =>
    \A t \in DOMAIN Targets : \A h \in DOMAIN Targets[t].hostnames :
      normalizeHostname(Targets[t].hostnames[h]) \notin BlacklistSet

\* The zone sets of the result that hold the normalized hostname.
ZonesHolding(canonical) ==
  {t \in DOMAIN Targets :
     \E h \in DOMAIN Targets[t].hostnames :
       normalizeHostname(Targets[t].hostnames[h]) = canonical}

\* The zone is a visible zone owning the hostname, and none owning it has a
\* longer name.
LongestOwner(zone, canonical) ==
  /\ \E k \in MatchingZones(canonical, tInput.zones) : tInput.zones[k] = zone
  /\ \A k \in MatchingZones(canonical, tInput.zones) :
       Len(normalizeHostname(tInput.zones[k].name)) <= Len(normalizeHostname(zone.name))

\* C16: in the result of collectZoneTargets every normalized hostname is in
\* exactly one zone's target set, and that zone is the longest-named visible
\* zone whose name is the hostname or a suffix of it after a '.'; explicit
\* hostnames and hostnames discovered from a zone's records alike.
C16_OneLongestZonePerHostname ==
  Returned =>
    \A t \in DOMAIN Targets : \A h \in DOMAIN Targets[t].hostnames :
      LET canonical == normalizeHostname(Targets[t].hostnames[h])
      IN /\ ZonesHolding(canonical) = {t}
         /\ LongestOwner(Targets[t].zone, canonical)

\* ====================================================================
\* The address resolver: update/ip-resolver.ts
\* ====================================================================
\* A response body is a token between optional surrounding whitespace.
Body(pad, core) == [pad |-> pad, core |-> core]
IPv4Texts == {"203.0.113.5", "198.51.100.7"}
IPv6Texts == {"2001:db8::1", "2001:db8::2"}
OtherTexts == {"<html>", ""}

\* String.prototype.trim on a body
trimBody(text) == [text EXCEPT !.pad = FALSE]

\* node:net isIP: 4 or 6 for an address of that family written without
\* surrounding whitespace, 0 for anything else
isIP(text) ==
  IF text.pad THEN 0
  ELSE IF text.core \in IPv4Texts THEN 4
  ELSE IF text.core \in IPv6Texts THEN 6
  ELSE 0

\* What fetch(url) can come to: a rejection, or a response with a status
\* and a body.
NetworkError == [class |-> "TypeError", message |-> "fetch failed"]
InvalidResponse == [class |-> "ZodError", message |-> "Invalid IP response"]
FetchFailed(url, statusText) ==
  [class |-> "Error", message |-> "Failed to fetch IP from", url |-> url,
   statusText |-> statusText]
Response(statusText, text) ==
  [rejected |-> FALSE, ok |-> statusText = "OK", statusText |-> statusText,
   text |-> text]
Rejection == [rejected |-> TRUE]

\* The echo endpoints: api.ipify.org is reachable over IPv4 only and reports
\* the caller's IPv4 address; api64.ipify.org is dual-stack and reports the
\* address of whichever family the request arrived on.  Either can be
\* answered by something else (a proxy, an error page).
Endpoint == [ipv4 |-> "https://api.ipify.org", ipv6 |-> "https://api64.ipify.org"]
Echoes ==
  [ipv4 |-> IPv4Texts \cup OtherTexts,
   ipv6 |-> IPv4Texts \cup IPv6Texts \cup OtherTexts]
Answers(family) ==
  {Rejection}
    \cup {Response(statusText, Body(FALSE, "<html>")) :
            statusText \in {"Forbidden", "Too Many Requests", "Service Unavailable"}}
    \cup {Response("OK", Body(pad, core)) : pad \in BOOLEAN, core \in Echoes[family]}

\* ip-resolver.ts:9-15
fetchText(url, answer) ==
  IF answer.rejected THEN Err(NetworkError)
  ELSE IF ~answer.ok THEN Err(FetchFailed(url, answer.statusText))
  ELSE Ok(answer.text)

\* ip-resolver.ts:17-24, whether ipSchema.parse(value) throws
ipSchemaRejects(value) == isIP(value) = 0

\* ip-resolver.ts:26-30 and 32-36: requestIPv4 and requestIPv6 differ in the
\* endpoint only
requestIP(family, answer) ==
  LET fetched == fetchText(Endpoint[family], answer)
  IN IF ~fetched.ok THEN fetched
     ELSE IF ipSchemaRejects(trimBody(fetched.value)) THEN Err(InvalidResponse)
     ELSE Ok(trimBody(fetched.value))

\* ip-resolver.ts:39-53: the families for which a task is started
Tasks(includeIPv4, includeIPv6) ==
  (IF includeIPv4 THEN {"ipv4"} ELSE {}) \cup (IF includeIPv6 THEN {"ipv6"} ELSE {})

NoFamilyRequested ==
  [class |-> "Error", message |-> "At least one IP version must be requested"]

\* The reduction without `?? state.ipv4` and `?? state.ipv6`: the fields of
\* the last task's result only
reduceResults_LastEntryOnly(lookups) ==
  [f \in {"ipv4", "ipv6"} |->
     IF f \in DOMAIN lookups /\ (f = "ipv6" \/ "ipv6" \notin DOMAIN lookups)
     THEN Some(lookups[f].value) ELSE None]

\* ip-resolver.ts:60-66: the results merged; an absent field is None
reduceResults(lookups) ==
  [f \in {"ipv4", "ipv6"} |->
     IF f \in DOMAIN lookups THEN Some(lookups[f].value) ELSE None]

Pending == [pending |-> TRUE]

ResolverInit ==
  /\ SchedulerIdle
  /\ DiscoveryIdle
  /\ UpdateIdle
  /\ ClientIdle
  /\ BootIdle
  /\ rInput \in [includeIPv4 : BOOLEAN, includeIPv6 : BOOLEAN]
  /\ rLookups = None
  /\ rResult = None

\* resolvePublicAddresses(includeIPv4, includeIPv6) up to its await
Resolve ==
  /\ rLookups = None /\ rResult = None
  /\ LET tasks == Tasks(rInput.includeIPv4, rInput.includeIPv6)
     IN IF tasks = {}
        THEN rResult' = Some(Err(NoFamilyRequested)) /\ UNCHANGED rLookups
        ELSE rLookups' = [f \in tasks |-> Pending] /\ UNCHANGED rResult
  /\ UNCHANGED <<rInput, outsideResolver>>

\* Promise.allSettled in the place of Promise.all: fulfilled once every task
\* has settled, with the addresses of the tasks that were fulfilled
promiseAll_AllSettled(settled, lookups, f) ==
  IF IsSome(settled) THEN settled
  ELSE IF \A g \in DOMAIN lookups : lookups[g] # Pending
       THEN Some(Ok([g \in {"ipv4", "ipv6"} |->
                       IF g \in DOMAIN lookups /\ lookups[g].ok
                       THEN Some(lookups[g].value) ELSE None]))
       ELSE None

\* Promise.all (ip-resolver.ts:59): rejected with the first rejection,
\* fulfilled once every task is fulfilled
promiseAll(settled, lookups, f) ==
  IF IsSome(settled) THEN settled
  ELSE IF ~lookups[f].ok THEN Some(lookups[f])
  ELSE IF \A g \in DOMAIN lookups : lookups[g] # Pending
       THEN Some(Ok(reduceResults(lookups)))
       ELSE None

\* The lookup of one family settles.
LookupSettles(f, answer) ==
  /\ rLookups # None
  /\ f \in DOMAIN rLookups
  /\ rLookups[f] = Pending
  /\ rLookups' = [rLookups EXCEPT ![f] = requestIP(f, answer)]
  /\ rResult' = promiseAll(rResult, rLookups', f)
  /\ UNCHANGED <<rInput, outsideResolver>>

ResolverNext ==
  \/ Resolve
  \/ \E answer \in Answers("ipv4") : LookupSettles("ipv4", answer)
  \/ \E answer \in Answers("ipv6") : LookupSettles("ipv6", answer)

SpecResolver == ResolverInit /\ [][ResolverNext]_vars

\* ---------------------------------------------- claims on the resolver
Resolved == IsSome(rResult) /\ Get(rResult).ok
Addresses == Get(rResult).value

\* C20: every address resolvePublicAddresses returns is a syntactically
\* valid address of the expected family: the ipv4 field is an IPv4 address,
\* the ipv6 field an IPv6 address; a lookup answered with an address of the
\* other family makes the resolution fail.
C20_AddressesOfExpectedFamily ==
  Resolved =>
    /\ IsSome(Addresses.ipv4) => isIP(Get(Addresses.ipv4)) = 4
    /\ IsSome(Addresses.ipv6) => isIP(Get(Addresses.ipv6)) = 6

\* The lookups that have been rejected
FailedLookups ==
  IF rLookups = None THEN {}
  ELSE {f \in DOMAIN rLookups : rLookups[f] # Pending /\ ~rLookups[f].ok}

Requested == Tasks(rInput.includeIPv4, rInput.includeIPv6)

\* C21: resolvePublicAddresses has no partial success: once the lookup of a
\* requested family has failed (the request failed, or the body is not an
\* address) the resolution has failed; a resolution that succeeds holds an
\* address, and a valid one, for every requested family and for no other.
C21_NoPartialSuccess ==
  /\ FailedLookups # {} => IsSome(rResult) /\ ~Get(rResult).ok
  /\ Resolved =>
       \A f \in {"ipv4", "ipv6"} :
         /\ IsSome(Addresses[f]) <=> f \in Requested
         /\ IsSome(Addresses[f]) => isIP(Get(Addresses[f])) # 0

\* Both families requested, the IPv4 lookup fulfilled, the IPv6 lookup
\* answered with something that is no address: the resolution has failed.
C21_Witness ==
  /\ Requested = {"ipv4", "ipv6"}
  /\ rLookups # None
  /\ rLookups["ipv4"] # Pending /\ rLookups["ipv4"].ok
  /\ rLookups["ipv6"] = Err(InvalidResponse)
  /\ IsSome(rResult) /\ ~Get(rResult).ok

\* ====================================================================
\* The provider, as CloudflareClient (cloudflare/client.ts) uses it
\* ====================================================================
\* A DNS record: [id, type, name, content, proxied, ttl].  The provider keeps
\* the records of each zone in a sequence and numbers the records it creates.
Record(id, type, name, content, proxied, ttl) ==
  [id |-> id, type |-> type, name |-> name, content |-> content,
   proxied |-> proxied, ttl |-> ttl]

\* GET /zones/:id/dns_records, all pages; with a name, the records of that
\* name only (names are compared as DNS compares them, without regard to case)
listDnsRecords(provider, zoneId, name) ==
  IF name = None THEN provider.records[zoneId]
  ELSE SelectSeq(provider.records[zoneId],
                 LAMBDA r : normalizeHostname(r.name) = normalizeHostname(Get(name)))

\* POST /zones/:id/dns_records: the record the provider stores and returns
createdRecord(provider, input) ==
  Record(provider.lastId + 1, input.type, normalizeHostname(input.name),
         input.content, input.proxied, input.ttl)

createDnsRecord(provider, zoneId, input) ==
  [provider EXCEPT !.records[zoneId] = Append(@, createdRecord(provider, input)),
                   !.lastId = @ + 1]

\* PUT /zones/:id/dns_records/:recordId
updatedRecord(recordId, input) ==
  Record(recordId, input.type, normalizeHostname(input.name), input.content,
         input.proxied, input.ttl)

updateDnsRecord(provider, zoneId, recordId, input) ==
  [provider EXCEPT !.records[zoneId] =
     [k \in DOMAIN @ |-> IF @[k].id = recordId THEN updatedRecord(recordId, input)
                         ELSE @[k]]]

\* DELETE /zones/:id/dns_records/:recordId
deleteDnsRecord(provider, zoneId, recordId) ==
  [provider EXCEPT !.records[zoneId] = SelectSeq(@, LAMBDA r : r.id # recordId)]

\* ====================================================================
\* The record reconciler: update/reconcile.ts
\* ====================================================================
\* reconcile.ts:27
AUTO_TTL == 1

\* The partition with every record that is neither AAAA nor CNAME taken for
\* an A record (reconcile.ts:34-37 without the test of the type)
partitionRecords_RestAsA(records) ==
  [aRecords |-> SelectSeq(records, LAMBDA r : r.type \notin {"AAAA", "CNAME"}),
   aaaaRecords |-> SelectSeq(records, LAMBDA r : r.type = "AAAA"),
   cnameRecords |-> SelectSeq(records, LAMBDA r : r.type = "CNAME")]

\* reconcile.ts:29-47
partitionRecords(records) ==
  [aRecords |-> SelectSeq(records, LAMBDA r : r.type = "A"),
   aaaaRecords |-> SelectSeq(records, LAMBDA r : r.type = "AAAA"),
   cnameRecords |-> SelectSeq(records, LAMBDA r : r.type = "CNAME")]

\* reconcile.ts:49-60
shouldUpdate_Always(existing, desired) == TRUE

\* reconcile.ts:49-60 without the comparison of the TTL
shouldUpdate_IgnoresTtl(existing, desired) ==
  \/ existing.content # desired.content
  \/ existing.proxied # desired.proxied

shouldUpdate(existing, desired) ==
  \/ existing.content # desired.content
  \/ existing.proxied # desired.proxied
  \/ existing.ttl # desired.ttl

\* What reconcileHostname does with the records it listed is fixed by them:
\* its steps, in order.  A delete, create or update step is one provider
\* call and, once the call has returned, one change; a skip step is a
\* change without a call; a throw step ends the reconciliation.
DeleteStep(record) == [op |-> "delete", record |-> Some(record), desired |-> None]
CreateStep(desired) == [op |-> "create", record |-> None, desired |-> Some(desired)]
UpdateStep(record, desired) ==
  [op |-> "update", record |-> Some(record), desired |-> Some(desired)]
SkipStep(record) == [op |-> "skip", record |-> Some(record), desired |-> None]
ThrowStep(message) ==
  [op |-> "throw", record |-> None, desired |-> None, message |-> message]

\* reconcile.ts:62-81
deleteRecords(records) == [k \in DOMAIN records |-> DeleteStep(records[k])]

\* reconcile.ts:83-126
ensureRecord_KeepsDuplicates(desired, existingRecords) ==
  IF Len(existingRecords) = 0 THEN <<CreateStep(desired)>>
  ELSE <<IF shouldUpdate(Head(existingRecords), desired)
         THEN UpdateStep(Head(existingRecords), desired)
         ELSE SkipStep(Head(existingRecords))>>

ensureRecord(desired, existingRecords) ==
  IF Len(existingRecords) = 0 THEN <<CreateStep(desired)>>
  ELSE LET primary == Head(existingRecords)
           duplicates == Tail(existingRecords)
       IN <<IF shouldUpdate(primary, desired) THEN UpdateStep(primary, desired)
            ELSE SkipStep(primary)>>
          \o deleteRecords(duplicates)

\* reconcile.ts:149-155 and 167-173
desiredRecord_DefaultTtl(type, hostname, content, config) ==
  [type |-> type, name |-> hostname, content |-> content,
   proxied |-> config.proxied, ttl |-> 300]

desiredRecord(type, hostname, content, config) ==
  [type |-> type, name |-> hostname, content |-> content,
   proxied |-> config.proxied, ttl |-> AUTO_TTL]

\* reconcile.ts:145-161 and 163-179: one address family
\* reconcile.ts:140-179 with the records of a disabled family left alone
familySteps_KeepsDisabled(enabled, type, address, hostname, config, existingRecords) ==
  IF enabled
  THEN IF address = None
       THEN <<ThrowStep(IF type = "A" THEN "IPv4 address not resolved"
                        ELSE "IPv6 address not resolved")>>
       ELSE ensureRecord(desiredRecord(type, hostname, Get(address), config),
                         existingRecords)
  ELSE <<>>

familySteps(enabled, type, address, hostname, config, existingRecords) ==
  IF enabled
  THEN IF address = None
       THEN <<ThrowStep(IF type = "A" THEN "IPv4 address not resolved"
                        ELSE "IPv6 address not resolved")>>
       ELSE ensureRecord(desiredRecord(type, hostname, Get(address), config),
                         existingRecords)
  ELSE deleteRecords(existingRecords)

\* reconcile.ts:137-181
reconcileSteps_AddressesFirst(config, hostname, ips, records) ==
  LET parts == partitionRecords(records)
  IN familySteps(config.includeIPv4, "A", ips.ipv4, hostname, config, parts.aRecords)
     \o familySteps(config.includeIPv6, "AAAA", ips.ipv6, hostname, config,
                    parts.aaaaRecords)
     \o deleteRecords(parts.cnameRecords)

reconcileSteps(config, hostname, ips, records) ==
  LET parts == partitionRecords(records)
  IN deleteRecords(parts.cnameRecords)
     \o familySteps(config.includeIPv4, "A", ips.ipv4, hostname, config, parts.aRecords)
     \o familySteps(config.includeIPv6, "AAAA", ips.ipv6, hostname, config,
                    parts.aaaaRecords)

\* reconcile.ts:72-78, 94-100, 107-113, 115-122: the change a step pushes;
\* for a create or an update the record type is the one the provider returned
Change(kind, recordType, hostname, zone, reason) ==
  [kind |-> kind, recordType |-> recordType, hostname |-> hostname,
   zoneId |-> zone.id, zoneName |-> zone.name, reason |-> reason]

changeOf(step, returned, hostname, zone) ==
  IF step.op = "delete"
  THEN Change("delete", Get(step.record).type, hostname, zone, None)
  ELSE IF step.op = "skip"
  THEN Change("skip", Get(step.record).type, hostname, zone, Some("unchanged"))
  ELSE Change(step.op, Get(returned).type, hostname, zone, None)

\* ====================================================================
\* One invocation of performUpdate (update/index.ts) or, on its own, of
\* reconcileHostname (update/reconcile.ts), from provider call to provider
\* call: an action is the return or the failure of the call awaited and the
\* code that runs up to the next call.
\* ====================================================================
\* A provider call: what is called, and whether it is pending, has returned
\* or has failed.
Call(method, zoneId, arg) ==
  [method |-> method, zoneId |-> zoneId, arg |-> arg, outcome |-> "pending"]

\* The calls issued, the last of which has settled.
Settled(calls, outcome) ==
  IF calls = <<>> THEN calls ELSE [calls EXCEPT ![Len(calls)].outcome = outcome]

\* The locals of an invocation before its first step.
NewRun(fn, n) ==
  [fn |-> fn, n |-> n, pc |-> "resolve", pending |-> None, ips |-> None,
   zones |-> <<>>, buckets |-> <<>>, zi |-> 1, targets |-> <<>>, t |-> 1,
   h |-> 1, hostnameCount |-> 0, records |-> <<>>, plan |-> <<>>,
   changes |-> <<>>, allChanges |-> <<>>, result |-> None]

await(run, call) == [run EXCEPT !.pc = "call", !.pending = Some(call)]
throw(run, error) ==
  [run EXCEPT !.pc = "thrown", !.pending = None, !.result = Some(Err(error))]
return(run, value) ==
  [run EXCEPT !.pc = "returned", !.pending = None, !.result = Some(Ok(value))]

\* index.ts:62-68 with the zones the token sees counted, not the targets
UpdateSummary_CountsVisibleZones(run) ==
  [zoneCount |-> Len(run.zones), hostnameCount |-> run.hostnameCount,
   changes |-> run.allChanges]

\* index.ts:62-68, without the clock readings
UpdateSummary(run) ==
  [zoneCount |-> Len(run.targets), hostnameCount |-> run.hostnameCount,
   changes |-> run.allChanges]

CurrentZone(run) == run.targets[run.t].zone
CurrentHostname(run) == run.targets[run.t].hostnames[run.h]

\* index.ts:41-52 and 61-76: the next hostname is reconciled, up to the
\* listDnsRecords call of reconcile.ts:136; after the last, the summary
RECURSIVE beginHostname(_)
beginHostname(run) ==
  IF run.t > Len(run.targets) THEN return(run, UpdateSummary(run))
  ELSE IF run.h > Len(run.targets[run.t].hostnames)
  THEN beginHostname([run EXCEPT !.t = @ + 1, !.h = 1])
  ELSE await([run EXCEPT !.hostnameCount = @ + 1, !.records = <<>>, !.plan = <<>>,
                         !.changes = <<>>],
             Call("listDnsRecords", CurrentZone(run).id, Some(CurrentHostname(run))))

\* The provider call of a step.
callOf(step, zoneId) ==
  IF step.op = "delete" THEN Call("deleteDnsRecord", zoneId, Get(step.record).id)
  ELSE IF step.op = "create" THEN Call("createDnsRecord", zoneId, Get(step.desired))
  ELSE Call("updateDnsRecord", zoneId,
            [recordId |-> Get(step.record).id, input |-> Get(step.desired)])

\* reconcileHostname goes on with its remaining steps up to the next
\* provider call; with none left it returns its changes (reconcile.ts:181),
\* which performUpdate appends to allChanges (index.ts:50)
RECURSIVE runSteps(_)
runSteps(run) ==
  IF run.plan = <<>>
  THEN IF run.fn = "reconcileHostname" THEN return(run, run.changes)
       ELSE beginHostname([run EXCEPT !.allChanges = @ \o run.changes, !.h = @ + 1])
  ELSE LET step == Head(run.plan)
       IN IF step.op = "skip"
          THEN runSteps([run EXCEPT
                 !.changes = Append(@, changeOf(step, None, CurrentHostname(run),
                                                CurrentZone(run))),
                 !.plan = Tail(@)])
          ELSE IF step.op = "throw"
          THEN throw(run, [class |-> "Error", message |-> step.message])
          ELSE await(run, callOf(step, CurrentZone(run).id))

\* reconcile.ts:136-138: the records of the hostname were listed
afterHostnameRecords(run, config, records) ==
  runSteps([run EXCEPT
    !.records = records,
    !.plan = reconcileSteps(config, CurrentHostname(run), Get(run.ips), records)])

\* The call of the first step returned: its change is pushed.
afterWrite(run, returned) ==
  runSteps([run EXCEPT
    !.changes = Append(@, changeOf(Head(run.plan), returned, CurrentHostname(run),
                                   CurrentZone(run))),
    !.plan = Tail(@)])

BlacklistOf(config) ==
  {normalizeHostname(config.blacklist[k]) : k \in DOMAIN config.blacklist}
ZonesByName(zones) ==
  MapOf([k \in DOMAIN zones |->
           [key |-> normalizeHostname(zones[k].name), value |-> zones[k]]])
ZonesById(zones) ==
  MapOf([k \in DOMAIN zones |-> [key |-> zones[k].id, value |-> zones[k]]])

\* targets.ts:95-102 and 113-131: the next configured zone, up to its
\* listDnsRecords call; after the last, the targets are returned and
\* performUpdate starts on them (index.ts:37-41)
startZone(run, config) ==
  IF run.zi > Len(config.zoneTargets)
  THEN beginHostname([run EXCEPT
         !.targets = results(run.buckets, ZonesById(run.zones)), !.t = 1, !.h = 1])
  ELSE LET zoneName == config.zoneTargets[run.zi]
           normalizedZoneName == normalizeHostname(zoneName)
       IN IF ~MapHas(ZonesByName(run.zones), normalizedZoneName)
          THEN throw(run, NoZoneForDomain(zoneName))
          ELSE LET zone == MapGet(ZonesByName(run.zones), normalizedZoneName)
               IN await([run EXCEPT !.buckets = appendHostname(@, zone.id, zone.name)],
                        Call("listDnsRecords", zone.id, None))

\* targets.ts:68-93: listZones returned
afterListZones(run, config, zones) ==
  IF Len(zones) = 0 THEN throw(run, NoZonesAvailable)
  ELSE LET explicit == hostnameLoop(config.hostnameTargets, zones,
                                    BlacklistOf(config), <<>>)
       IN IF ~explicit.ok THEN throw(run, explicit.value)
          ELSE startZone([run EXCEPT !.zones = zones, !.buckets = explicit.value,
                                     !.zi = 1], config)

\* targets.ts:102-111: the records of a configured zone were listed
afterZoneRecords(run, config, records) ==
  startZone([run EXCEPT
    !.buckets = appendAll(@, Get(run.pending).zoneId,
                          collectHostnamesFromZoneRecords(records, BlacklistOf(config))),
    !.zi = @ + 1], config)

\* The step an action ends with: the invocation's new locals, and the call it
\* now awaits added to the calls issued.
Proceed(run) ==
  /\ uRun' = run
  /\ uCalls' = IF IsSome(run.pending)
               THEN Append(Settled(uCalls, "returned"), Get(run.pending))
               ELSE Settled(uCalls, "returned")

Awaiting(method) ==
  /\ uRun # None
  /\ uRun.pc = "call"
  /\ Get(uRun.pending).method = method

\* listZones returned (targets.ts:68)
ListZonesReturns ==
  /\ Awaiting("listZones")
  /\ Proceed(afterListZones(uRun, uConfig, uProvider.zones))
  /\ UNCHANGED <<uConfig, uProvider, uPrev, outsideUpdate>>

\* listDnsRecords(zone.id) returned (targets.ts:102)
ZoneRecordsReturn ==
  /\ Awaiting("listDnsRecords")
  /\ Get(uRun.pending).arg = None
  /\ Proceed(afterZoneRecords(uRun, uConfig,
                              listDnsRecords(uProvider, Get(uRun.pending).zoneId, None)))
  /\ UNCHANGED <<uConfig, uProvider, uPrev, outsideUpdate>>

\* listDnsRecords(zoneId, {name: hostname}) returned (reconcile.ts:136)
HostnameRecordsReturn ==
  /\ Awaiting("listDnsRecords")
  /\ Get(uRun.pending).arg # None
  /\ Proceed(afterHostnameRecords(uRun, uConfig,
               listDnsRecords(uProvider, Get(uRun.pending).zoneId,
                              Get(uRun.pending).arg)))
  /\ UNCHANGED <<uConfig, uProvider, uPrev, outsideUpdate>>

\* deleteDnsRecord returned (reconcile.ts:71)
DeleteReturns ==
  /\ Awaiting("deleteDnsRecord")
  /\ uProvider' = deleteDnsRecord(uProvider, Get(uRun.pending).zoneId,
                                  Get(uRun.pending).arg)
  /\ Proceed(afterWrite(uRun, None))
  /\ UNCHANGED <<uConfig, uPrev, outsideUpdate>>

\* createDnsRecord returned the record created (reconcile.ts:93)
CreateReturns ==
  /\ Awaiting("createDnsRecord")
  /\ uProvider' = createDnsRecord(uProvider, Get(uRun.pending).zoneId,
                                  Get(uRun.pending).arg)
  /\ Proceed(afterWrite(uRun, Some(createdRecord(uProvider, Get(uRun.pending).arg))))
  /\ UNCHANGED <<uConfig, uPrev, outsideUpdate>>

\* updateDnsRecord returned the record updated (reconcile.ts:106)
UpdateReturns ==
  /\ Awaiting("updateDnsRecord")
  /\ uProvider' = updateDnsRecord(uProvider, Get(uRun.pending).zoneId,
                                  Get(uRun.pending).arg.recordId,
                                  Get(uRun.pending).arg.input)
  /\ Proceed(afterWrite(uRun, Some(updatedRecord(Get(uRun.pending).arg.recordId,
                                                  Get(uRun.pending).arg.input))))
  /\ UNCHANGED <<uConfig, uPrev, outsideUpdate>>

\* The call awaited fails: CloudflareClient.request throws (client.ts:149-202)
\* and nothing between the call and the scheduler catches it.  The provider
\* did not apply the call.
ProviderCallFails_Retries ==
  /\ uRun # None
  /\ uRun.pc = "call"
  /\ uRun' = uRun
  /\ uCalls' = Append(Settled(uCalls, "failed"), Get(uRun.pending))
  /\ UNCHANGED <<uConfig, uProvider, uPrev, outsideUpdate>>

ProviderCallFails ==
  /\ uRun # None
  /\ uRun.pc = "call"
  /\ \E error \in ApiErrors : uRun' = throw(uRun, error)
  /\ uCalls' = Settled(uCalls, "failed")
  /\ UNCHANGED <<uConfig, uProvider, uPrev, outsideUpdate>>

\* ----------------------------------- reconcileHostname studied on its own
Current4 == "203.0.113.5"
Current6 == "2001:db8::1"

\* What resolvePublicAddresses returns for the configuration (index.ts:32)
\* when the echo endpoints answer with the current addresses
\* (ip-resolver.ts:38-67)
CurrentAnswer ==
  [ipv4 |-> Response("OK", Body(TRUE, Current4)),
   ipv6 |-> Response("OK", Body(TRUE, Current6))]
ResolvedFor(config) ==
  LET lookups == [f \in Tasks(config.includeIPv4, config.includeIPv6) |->
                    requestIP(f, CurrentAnswer[f])]
      merged == reduceResults(lookups)
  IN [f \in {"ipv4", "ipv6"} |->
        IF IsSome(merged[f]) THEN Some(Get(merged[f]).core) ELSE None]

\* config.ts:86-117: the record settings; one family at least is managed
RecordSettings ==
  {c \in [includeIPv4 : BOOLEAN, includeIPv6 : BOOLEAN, proxied : BOOLEAN] :
     c.includeIPv4 \/ c.includeIPv6}

\* The records the provider may hold for the hostname w.e.c before the first
\* reconciliation.  A CNAME record is the only record of its name.
ExistingRecords ==
  {<<>>,
   <<Record(1, "A", w_e_c, Current4, TRUE, 1)>>,
   <<Record(1, "A", w_e_c, "198.51.100.7", TRUE, 1)>>,
   <<Record(1, "A", w_e_c, Current4, FALSE, 300)>>,
   <<Record(1, "A", w_e_c, "198.51.100.7", TRUE, 1),
     Record(2, "A", w_e_c, Current4, TRUE, 1)>>,
   <<Record(1, "A", w_e_c, Current4, TRUE, 1),
     Record(2, "A", w_e_c, "198.51.100.7", FALSE, 1),
     Record(3, "A", w_e_c, "192.0.2.1", FALSE, 300)>>,
   <<Record(1, "CNAME", w_e_c, "q.z", TRUE, 1)>>,
   <<Record(1, "AAAA", w_e_c, Current6, TRUE, 1)>>,
   <<Record(1, "AAAA", w_e_c, "2001:db8::2", FALSE, 1),
     Record(2, "AAAA", w_e_c, Current6, TRUE, 1)>>,
   <<Record(1, "A", w_e_c, Current4, FALSE, 1),
     Record(2, "AAAA", w_e_c, "2001:db8::2", FALSE, 1)>>,
   <<Record(1, "TXT", w_e_c, "v=spf1 -all", FALSE, 300)>>,
   <<Record(1, "A", w_e_c, "198.51.100.7", TRUE, 1),
     Record(2, "TXT", w_e_c, "v=spf1 -all", FALSE, 300),
     Record(3, "AAAA", w_e_c, Current6, TRUE, 1)>>}

\* A record of another name in the same zone.
Bystander == Record(4, "A", q_e_c, "198.51.100.7", FALSE, 300)

\* reconcileHostname(client, config, zoneE.id, zoneE.name, w.e.c, ips), up to
\* its listDnsRecords call
Reconciling(n, ips) ==
  await([NewRun("reconcileHostname", n) EXCEPT
           !.ips = Some(ips),
           !.targets = <<[zone |-> zoneE, hostnames |-> <<w_e_c>>]>>],
        Call("listDnsRecords", zoneE.id, Some(w_e_c)))

ReconcileInit ==
  /\ SchedulerIdle
  /\ DiscoveryIdle
  /\ ResolverIdle
  /\ ClientIdle
  /\ BootIdle
  /\ \E settings \in RecordSettings :
       uConfig = [includeIPv4 |-> settings.includeIPv4,
                  includeIPv6 |-> settings.includeIPv6,
                  proxied |-> settings.proxied,
                  hostnameTargets |-> <<w_e_c>>, zoneTargets |-> <<>>,
                  blacklist |-> <<>>]
  /\ \E existing \in ExistingRecords :
       uProvider = [zones |-> <<zoneE>>,
                    records |-> [z \in {zoneE.id} |-> existing \o <<Bystander>>],
                    lastId |-> Bystander.id]
  /\ uRun = Reconciling(1, ResolvedFor(uConfig))
  /\ uCalls = <<Get(uRun.pending)>>
  /\ uPrev = None

\* The hostname is reconciled again, with the same addresses.
ReconcileAgain ==
  /\ uRun.pc \in {"returned", "thrown"}
  /\ uRun.n < MaxRuns
  /\ uPrev' = uRun.result
  /\ uRun' = Reconciling(uRun.n + 1, Get(uRun.ips))
  /\ uCalls' = <<Get(uRun'.pending)>>
  /\ UNCHANGED <<uConfig, uProvider, outsideUpdate>>

ReconcileNext ==
  \/ HostnameRecordsReturn
  \/ DeleteReturns
  \/ CreateReturns
  \/ UpdateReturns
  \/ ProviderCallFails
  \/ ReconcileAgain

SpecReconcile == ReconcileInit /\ [][ReconcileNext]_vars

\* ------------------------------------------------- one pass: performUpdate
\* The targets configured (config.ts:80-93), the zones the token sees and the
\* records they hold before the pass.
PassTargets ==
  {[hostnameTargets |-> <<w_e_c>>, zoneTargets |-> <<>>, blacklist |-> <<>>],
   [hostnameTargets |-> <<w_e_c, s_a_e_c>>, zoneTargets |-> <<>>, blacklist |-> <<>>],
   [hostnameTargets |-> <<>>, zoneTargets |-> <<E_C>>, blacklist |-> <<>>],
   [hostnameTargets |-> <<xe_c>>, zoneTargets |-> <<>>, blacklist |-> <<>>],
   [hostnameTargets |-> <<xe_c>>, zoneTargets |-> <<>>, blacklist |-> <<xe_c>>],
   [hostnameTargets |-> <<xe_c, w_e_c>>, zoneTargets |-> <<>>, blacklist |-> <<xe_c>>],
   [hostnameTargets |-> <<w_e_c>>, zoneTargets |-> <<a_e_c>>, blacklist |-> <<>>],
   [hostnameTargets |-> <<s_a_e_c>>, zoneTargets |-> <<E_C, a_e_c>>,
    blacklist |-> <<W_e_c>>]}

PassRecords ==
  [zoneE |-> {<<Bystander>>,
              <<Record(1, "A", w_e_c, "198.51.100.7", TRUE, 1),
                Record(2, "A", w_e_c, Current4, TRUE, 1),
                Record(3, "CNAME", s_a_e_c, "q.z", TRUE, 1),
                Bystander>>},
   zoneA |-> {<<>>, <<Record(5, "AAAA", s_a_e_c, Current6, FALSE, 1)>>},
   zoneQ |-> {<<>>}]

PassInit ==
  /\ SchedulerIdle
  /\ DiscoveryIdle
  /\ ResolverIdle
  /\ ClientIdle
  /\ BootIdle
  /\ \E settings \in RecordSettings, targets \in PassTargets :
       uConfig = [includeIPv4 |-> settings.includeIPv4,
                  includeIPv6 |-> settings.includeIPv6,
                  proxied |-> settings.proxied,
                  hostnameTargets |-> targets.hostnameTargets,
                  zoneTargets |-> targets.zoneTargets,
                  blacklist |-> targets.blacklist]
  /\ \E zones \in ZoneLists :
       \E records \in [{zones[k].id : k \in DOMAIN zones} ->
                         UNION {PassRecords[z] : z \in ZoneIds}] :
         /\ \A z \in DOMAIN records : records[z] \in PassRecords[z]
         /\ uProvider = [zones |-> zones, records |-> records, lastId |-> 5]
  /\ uRun = NewRun("performUpdate", 1)
  /\ uCalls = <<>>
  /\ uPrev = None

\* resolvePublicAddresses returned (index.ts:32); collectZoneTargets calls
\* listZones (targets.ts:68)
AddressesResolved ==
  /\ uRun # None
  /\ uRun.pc = "resolve"
  /\ Proceed(await([uRun EXCEPT !.ips = Some(ResolvedFor(uConfig))],
                   Call("listZones", None, None)))
  /\ UNCHANGED <<uConfig, uProvider, uPrev, outsideUpdate>>

\* resolvePublicAddresses threw when collectZoneTargets had been started
\* along with it
ResolutionFails_DiscoveryStarted ==
  /\ uRun # None
  /\ uRun.pc = "resolve"
  /\ uRun' = throw(uRun, ResolutionError)
  /\ uCalls' = <<Call("listZones", None, None)>>
  /\ UNCHANGED <<uConfig, uProvider, uPrev, outsideUpdate>>

\* resolvePublicAddresses threw (index.ts:32)
ResolutionFails ==
  /\ uRun # None
  /\ uRun.pc = "resolve"
  /\ Proceed(throw(uRun, ResolutionError))
  /\ UNCHANGED <<uConfig, uProvider, uPrev, outsideUpdate>>

PassNext ==
  \/ AddressesResolved
  \/ ResolutionFails
  \/ ListZonesReturns
  \/ ZoneRecordsReturn
  \/ HostnameRecordsReturn
  \/ DeleteReturns
  \/ CreateReturns
  \/ UpdateReturns
  \/ ProviderCallFails

SpecPass == PassInit /\ [][PassNext]_vars

\* ------------------------------------------- claims on the reconciler
\* reconcileHostname has returned its changes.
Reconciled == uRun.fn = "reconcileHostname" /\ uRun.pc = "returned"
Changes == Get(uRun.result).value

\* The records of a type among the records reconcileHostname listed, and
\* among the records the provider now holds for the hostname.
Listed(type) == SelectSeq(uRun.records, LAMBDA r : r.type = type)
Held(type) ==
  SelectSeq(listDnsRecords(uProvider, CurrentZone(uRun).id, Some(CurrentHostname(uRun))),
            LAMBDA r : r.type = type)

ChangesWhere(kinds, type) ==
  {k \in DOMAIN Changes : Changes[k].kind \in kinds /\ Changes[k].recordType = type}

Enabled(type) == IF type = "A" THEN uConfig.includeIPv4 ELSE uConfig.includeIPv6

WriteMethods == {"createDnsRecord", "updateDnsRecord", "deleteDnsRecord"}

\* The call deletes one of the CNAME records listed.
DeletesCname(call) ==
  /\ call.method = "deleteDnsRecord"
  /\ \E k \in DOMAIN Listed("CNAME") : Listed("CNAME")[k].id = call.arg

OneLeftOfMany(type) ==
  Len(Listed(type)) >= 2 =>
    /\ Len(Held(type)) = 1
    /\ Cardinality(ChangesWhere({"delete"}, type)) = Len(Listed(type)) - 1
    /\ Cardinality(ChangesWhere({"update", "skip"}, type)) = 1

\* C12 (as claimed): for every hostname with n >= 2 existing records of the
\* same type (A or AAAA), reconcileHostname leaves exactly one record of that
\* type and produces exactly n-1 delete changes plus one update or skip
\* change for the retained first record.
C12_OneLeftOfDuplicates ==
  Reconciled => \A type \in {"A", "AAAA"} : OneLeftOfMany(type)

\* C12 (amended): the same, for the types whose address family is enabled;
\* the record left is the first one listed, and no create change is made.
C12_OneLeftOfDuplicatesWhenEnabled ==
  Reconciled =>
    \A type \in {"A", "AAAA"} :
      (Enabled(type) /\ Len(Listed(type)) >= 2) =>
        /\ OneLeftOfMany(type)
        /\ Held(type)[1].id = Listed(type)[1].id
        /\ ChangesWhere({"create"}, type) = {}

\* Three A records were listed and IPv4 is enabled: one is left.
C12_Witness ==
  /\ Reconciled
  /\ uConfig.includeIPv4
  /\ Len(Listed("A")) = 3
  /\ Len(Held("A")) = 1
  /\ Cardinality(ChangesWhere({"delete"}, "A")) = 2

\* C13: for a hostname with no A record and IPv4 enabled, reconcileHostname
\* produces exactly one create change of type A, and afterwards the provider
\* holds exactly one A record for the hostname, with the resolved IPv4
\* address as content, the configured proxy flag and TTL 1.
C13_CreatesTheMissingRecord ==
  (Reconciled /\ uConfig.includeIPv4 /\ Listed("A") = <<>>) =>
    /\ Cardinality(ChangesWhere({"create"}, "A")) = 1
    /\ ChangesWhere({"update", "delete", "skip"}, "A") = {}
    /\ Len(Held("A")) = 1
    /\ Held("A")[1].content = Get(Get(uRun.ips).ipv4)
    /\ Held("A")[1].proxied = uConfig.proxied
    /\ Held("A")[1].ttl = 1

\* No record at all was listed, IPv4 is enabled, and the A record was created.
C13_Witness ==
  /\ Reconciled
  /\ uConfig.includeIPv4
  /\ uRun.records = <<>>
  /\ Len(Held("A")) = 1
  /\ \E k \in DOMAIN uCalls : uCalls[k].method = "createDnsRecord"

\* The reconciliation under way follows one that returned.
SecondReconciliation ==
  uRun.fn = "reconcileHostname" /\ uRun.n > 1 /\ IsSome(uPrev) /\ Get(uPrev).ok

\* C14: reconciling the same hostname a second time, with the same addresses
\* and configuration and no other writer, issues no provider write call and
\* produces for every enabled record type exactly one skip change with
\* reason "unchanged", and no other change.
C14_SecondReconciliationSkips ==
  SecondReconciliation =>
    /\ \A k \in DOMAIN uCalls : uCalls[k].method \notin WriteMethods
    /\ Reconciled =>
         /\ \A type \in {"A", "AAAA"} :
              Enabled(type) =>
                \E k \in DOMAIN Changes :
                  /\ Changes[k].kind = "skip"
                  /\ Changes[k].reason = Some("unchanged")
                  /\ ChangesWhere({"create", "update", "delete", "skip"}, type) = {k}
         /\ \A k \in DOMAIN Changes :
              Changes[k].recordType \in {"A", "AAAA"} /\ Enabled(Changes[k].recordType)

\* The second reconciliation returned two skips after the first one had
\* written to the provider.
C14_Witness ==
  /\ SecondReconciliation
  /\ Reconciled
  /\ uConfig.includeIPv4 /\ uConfig.includeIPv6
  /\ Len(Changes) = 2
  /\ Get(uPrev).value # Changes

\* ------------------------------------------------- claims on the pass
\* An explicit hostname no visible zone owns; a configured zone name that is
\* the name of no visible zone.
Unowned(hostname) == MatchingZones(hostname, uProvider.zones) = {}
UnownedHostnames ==
  {k \in DOMAIN uConfig.hostnameTargets : Unowned(uConfig.hostnameTargets[k])}
UnknownZoneNames ==
  {k \in DOMAIN uConfig.zoneTargets :
     \A z \in DOMAIN uProvider.zones :
       normalizeHostname(uProvider.zones[z].name)
         # normalizeHostname(uConfig.zoneTargets[k])}

\* The calls of target discovery.
DiscoveryCall(call) ==
  call.method = "listZones" \/ (call.method = "listDnsRecords" /\ call.arg = None)

\* The pass has no target set, has reconciled no hostname and has not
\* returned a summary.
NothingReconciled ==
  /\ uRun.targets = <<>>
  /\ uRun.hostnameCount = 0
  /\ uRun.pc # "returned"
  /\ \A k \in DOMAIN uCalls : DiscoveryCall(uCalls[k])

\* C18 (as claimed): an explicit hostname that no visible zone owns, a
\* configured zone name that matches no visible zone, and a provider
\* reporting no zone each make collectZoneTargets fail as a whole: no
\* partial target set is returned and the pass reconciles no hostname.
C18_UnresolvedTargetFailsThePass ==
  (uRun.fn = "performUpdate"
     /\ (UnownedHostnames # {} \/ UnknownZoneNames # {} \/ uProvider.zones = <<>>))
    => NothingReconciled

\* C18 (amended): the same, for explicit hostnames that are not blacklisted.
C18_UnresolvedTargetFailsThePassUnlessBlacklisted ==
  (uRun.fn = "performUpdate"
     /\ \/ \E k \in UnownedHostnames :
             ~isBlacklisted(uConfig.hostnameTargets[k], BlacklistOf(uConfig))
        \/ UnknownZoneNames # {}
        \/ uProvider.zones = <<>>)
    => NothingReconciled

\* The second configured zone is unknown: discovery threw after it had put
\* an explicit hostname and the first zone's names into the buckets.
C18_Witness ==
  /\ uRun.fn = "performUpdate"
  /\ uRun.pc = "thrown"
  /\ Get(uRun.result).value = NoZoneForDomain(a_e_c)
  /\ uRun.buckets # <<>>
  /\ Len(uCalls) = 2
  /\ NothingReconciled

\* C19: when a provider call fails during a pass, no further provider call
\* is issued in that pass (the failed call is the last one), the failure
\* leaves the provider's records as the earlier writes made them, and the
\* pass ends in failure, without an Update Summary.
C19_FailedCallEndsThePass ==
  /\ [](uRun.fn = "performUpdate" =>
          \A k \in DOMAIN uCalls :
            uCalls[k].outcome = "failed" =>
              /\ k = Len(uCalls)
              /\ uRun.pc = "thrown"
              /\ ~Get(uRun.result).ok
              /\ Get(uRun.result).value \in ApiErrors)
  /\ [][(uRun.fn = "performUpdate" /\ uCalls' # <<>>
           /\ uCalls'[Len(uCalls')].outcome = "failed")
          => uProvider' = uProvider]_vars

\* A call failed after a write of the same pass had been applied, with a
\* hostname still to reconcile.
C19_Witness ==
  /\ uRun.fn = "performUpdate"
  /\ uRun.pc = "thrown"
  /\ uCalls # <<>>
  /\ uCalls[Len(uCalls)].outcome = "failed"
  /\ \E k \in DOMAIN uCalls :
       uCalls[k].method \in WriteMethods /\ uCalls[k].outcome = "returned"
  /\ uRun.t = 1 /\ Len(uRun.targets) = 2

\* ====================================================================
\* The provider client, request by request: cloudflare/client.ts
\* ====================================================================
\* An HTTP response: its status and its raw body.  A raw body is empty, or
\* text that is not JSON, or the JSON text of a value.
EmptyBody == [kind |-> "empty"]
TextBody(text) == [kind |-> "text", text |-> text]
JsonBody(value) == [kind |-> "json", value |-> value]
HttpResponse(status, rawBody) ==
  [rejected |-> FALSE, status |-> status, ok |-> status \in 200..299,
   rawBody |-> rawBody]

\* The JSON values met: null, and the provider's envelope, of which errors
\* and result_info may be missing
JsonNull == [json |-> "null"]
Envelope(success, result, errors, result_info) ==
  [json |-> "object", success |-> success, result |-> result,
   errors |-> errors, result_info |-> result_info]

\* rawBody.length
bodyLength(rawBody) == IF rawBody.kind = "empty" THEN 0 ELSE 1

\* JSON.parse(rawBody): the value, or a SyntaxError
jsonParse(rawBody) ==
  IF rawBody.kind = "json" THEN Ok(rawBody.value) ELSE Err("SyntaxError")

\* client.ts:46-60
CloudflareApiError(message, status, errors, body) ==
  [class |-> "CloudflareApiError", message |-> message, status |-> status,
   errors |-> errors, body |-> body]

FetchRejected == [class |-> "TypeError", message |-> "fetch failed"]

\* client.ts:193 with the test of the success flag left out
failed_IgnoresSuccessFlag(response, parsed) == ~response.ok

\* client.ts:193
failed(response, parsed) == ~response.ok \/ ~parsed.success

\* client.ts:170-201: what request() comes to when fetch is answered with
\* response
request(response) ==
  IF response.rejected THEN Err(FetchRejected)
  ELSE
    LET rawBody == response.rawBody
        parsed == IF bodyLength(rawBody) > 0 THEN jsonParse(rawBody) ELSE Ok(JsonNull)
    IN IF ~parsed.ok
       THEN Err(CloudflareApiError("Cloudflare API returned non-JSON response",
                                   response.status, <<>>, rawBody))
       ELSE IF parsed.value = JsonNull
       THEN IF ~response.ok
            THEN Err(CloudflareApiError("Cloudflare API request failed with status",
                                        response.status, <<>>, rawBody))
            ELSE Err(CloudflareApiError("Cloudflare API returned an empty response",
                                        response.status, <<>>, rawBody))
       ELSE IF failed(response, parsed.value)
       THEN Err(CloudflareApiError(
                  "Cloudflare API request failed with status", response.status,
                  IF IsSome(parsed.value.errors) THEN Get(parsed.value.errors) ELSE <<>>,
                  rawBody))
       ELSE Ok(parsed.value)

\* client.ts:143 with <= in the place of <
hasMore_Inclusive(info) == IsSome(info) /\ Get(info).page <= Get(info).total_pages

\* client.ts:143
hasMore(info) == IsSome(info) /\ Get(info).page < Get(info).total_pages

ListMethods == {"listZones", "listDnsRecords"}
WriteCalls == {"createDnsRecord", "updateDnsRecord", "deleteDnsRecord"}

\* One call of a client method, suspended in fetch: the requests issued so
\* far (the page asked for, or None), and the locals of fetchAllPages
NewClientCall(method) ==
  [method |-> method, pc |-> "fetch", page |-> 1, items |-> <<>>,
   requests |-> <<IF method \in ListMethods THEN Some(1) ELSE None>>,
   response |-> None, result |-> None]

\* client.ts:140-146: fetchAllPages from the response to its request up to
\* the next request, or to its return
afterPage(run, response) ==
  LET items == run.items \o response.result
  IN IF hasMore(response.result_info)
     THEN [run EXCEPT !.items = items, !.page = run.page + 1,
                      !.requests = Append(run.requests, Some(run.page + 1))]
     ELSE [run EXCEPT !.items = items, !.page = run.page + 1, !.pc = "done",
                      !.result = Some(Ok(items))]

\* client.ts:108-128: createDnsRecord and updateDnsRecord return
\* response.result, deleteDnsRecord returns nothing
afterWriteRequest(run, response) ==
  [run EXCEPT !.pc = "done",
              !.result = Some(Ok(IF run.method = "deleteDnsRecord" THEN None
                                 ELSE Some(response.result)))]

\* The call resumes with what request() came to.
resume(run, requested) ==
  IF ~requested.ok
  THEN [run EXCEPT !.pc = "done", !.result = Some(requested)]
  ELSE IF run.method \in ListMethods THEN afterPage(run, requested.value)
  ELSE afterWriteRequest(run, requested.value)

\* ------------------------------------------------------- the provider
\* Page number page of the provider's list, per_page items to the page
pageOf(items, page, per_page) ==
  LET first == (page - 1) * per_page + 1
      last == IF page * per_page < Len(items) THEN page * per_page ELSE Len(items)
  IN IF first > Len(items) THEN <<>> ELSE SubSeq(items, first, last)

\* total_pages of a list of count items
totalPages(count, per_page) == (count + per_page - 1) \div per_page

\* The provider behind one call: the method called, the items it holds for
\* a list operation, the client's page size, the total_pages it reports,
\* and whether its result_info is faithful: present, echoing the page that
\* was asked for, with the total_pages of its list.
ClientServers ==
  {[method |-> m, items |-> [k \in 1..n |-> k], pageSize |-> size,
    totalPages |-> totalPages(n, size), faithful |-> TRUE] :
     m \in ListMethods, n \in 0..MaxItems, size \in 1..MaxPageSize}
  \cup
  {[method |-> m, items |-> [k \in 1..n |-> k], pageSize |-> size,
    totalPages |-> total, faithful |-> FALSE] :
     m \in ListMethods, n \in 0..MaxItems, size \in 1..MaxPageSize,
     total \in 0..MaxItems}
  \cup
  {[method |-> m, items |-> <<>>, pageSize |-> size, totalPages |-> 0,
    faithful |-> TRUE] : m \in WriteCalls, size \in 1..MaxPageSize}

\* The result_info the provider can put on page number page
ResultInfos(server, page) ==
  IF server.faithful
  THEN {Some([page |-> page, total_pages |-> server.totalPages])}
  ELSE {None}
         \cup {Some([page |-> echo, total_pages |-> server.totalPages]) :
                 echo \in 1..MaxItems}

AuthenticationError == [code |-> 10000, message |-> "Authentication error"]
RateLimited == [code |-> 971, message |-> "Please wait"]

\* The responses that report a failure, and fetch's own rejection
Refusals ==
  {[rejected |-> TRUE]}
    \cup {HttpResponse(403, JsonBody(Envelope(FALSE, <<>>, Some(<<AuthenticationError>>), None))),
          HttpResponse(200, JsonBody(Envelope(FALSE, <<>>, Some(<<RateLimited, AuthenticationError>>), None))),
          HttpResponse(500, JsonBody(Envelope(FALSE, <<>>, None, None))),
          HttpResponse(403, JsonBody(Envelope(TRUE, <<>>, Some(<<>>), None))),
          HttpResponse(500, JsonBody(JsonNull)),
          HttpResponse(200, JsonBody(JsonNull)),
          HttpResponse(502, TextBody("<html>")),
          HttpResponse(200, TextBody("<html>")),
          HttpResponse(500, EmptyBody),
          HttpResponse(204, EmptyBody)}

\* What fetch can come to for the request under way
FetchOutcomes(server, run) ==
  Refusals
    \cup (IF server.method \in ListMethods
          THEN {HttpResponse(200, JsonBody(Envelope(
                  TRUE, pageOf(server.items, run.page, server.pageSize),
                  Some(<<>>), info))) : info \in ResultInfos(server, run.page)}
          ELSE {HttpResponse(200, JsonBody(Envelope(
                  TRUE, [id |-> "r1"], Some(<<>>), None)))})

ClientInit ==
  /\ SchedulerIdle
  /\ DiscoveryIdle
  /\ ResolverIdle
  /\ UpdateIdle
  /\ BootIdle
  /\ cServer \in ClientServers
  /\ cRun = <<>>

\* A client method is called: it runs up to the fetch of its first request.
ClientCall ==
  /\ cRun = <<>>
  /\ cRun' = NewClientCall(cServer.method)
  /\ UNCHANGED <<cServer, outsideClient>>

\* fetch settles: request() and the method run on, up to the next fetch or
\* to the end of the call.
FetchSettles ==
  /\ cRun # <<>>
  /\ cRun.pc = "fetch"
  /\ \E response \in FetchOutcomes(cServer, cRun) :
       LET next == resume(cRun, request(response))
       IN /\ Len(next.requests) <= MaxRequests
          /\ cRun' = [next EXCEPT !.response = Some(response)]
  /\ UNCHANGED <<cServer, outsideClient>>

ClientNext ==
  \/ ClientCall
  \/ FetchSettles

SpecClient == ClientInit /\ [][ClientNext]_vars

\* ------------------------------------------------ claims on the client
Called == cRun # <<>>
ClientReturned == Called /\ IsSome(cRun.result) /\ Get(cRun.result).ok
ClientFailed == Called /\ IsSome(cRun.result) /\ ~Get(cRun.result).ok
AtLeastOne(n) == IF n < 1 THEN 1 ELSE n

\* C22: a list operation on a provider whose result_info is faithful asks
\* for the pages 1, 2, ... in this order, one at a time, for no page beyond
\* the reported total_pages, and when it returns it has asked for all of
\* them and returns the provider's items in the provider's order, each
\* exactly once.
C22_AllPagesInOrder ==
  (Called /\ cServer.method \in ListMethods /\ cServer.faithful) =>
    /\ \A k \in DOMAIN cRun.requests : cRun.requests[k] = Some(k)
    /\ Len(cRun.requests) <= AtLeastOne(cServer.totalPages)
    /\ ClientReturned =>
         /\ Len(cRun.requests) = AtLeastOne(cServer.totalPages)
         /\ Get(cRun.result).value = cServer.items

\* Three items in pages of one: three requests, the three items returned.
C22_Witness ==
  /\ ClientReturned
  /\ cServer.method = "listDnsRecords" /\ cServer.faithful
  /\ cServer.pageSize = 1
  /\ Len(cServer.items) = 3
  /\ cRun.requests = <<Some(1), Some(2), Some(3)>>
  /\ Get(cRun.result).value = <<1, 2, 3>>

\* The response received last, if it reports a failure: a status that is
\* not 2xx, an envelope whose success flag is false, or a body that is no
\* JSON.
LastResponse == Get(cRun.response)
IsEnvelope(rawBody) == rawBody.kind = "json" /\ rawBody.value # JsonNull
Unparsable(rawBody) == rawBody.kind = "text"
ReportsFailure(response) ==
  \/ ~(response.status \in 200..299)
  \/ IsEnvelope(response.rawBody) /\ ~response.rawBody.value.success
  \/ Unparsable(response.rawBody)
ErrorList(rawBody) ==
  IF IsEnvelope(rawBody) /\ IsSome(rawBody.value.errors)
  THEN Get(rawBody.value.errors) ELSE <<>>

\* C23: a response that is not 2xx, or whose envelope says success false,
\* or whose body cannot be parsed, ends the call with a CloudflareApiError
\* that carries the status, the envelope's error list (the empty list if
\* there is none) and the raw body; the call returns no result and issues
\* no further request.
C23_FailureResponseFailsTheCall ==
  (Called /\ IsSome(cRun.response) /\ ~LastResponse.rejected
     /\ ReportsFailure(LastResponse)) =>
    /\ cRun.pc = "done"
    /\ ClientFailed
    /\ LET error == Get(cRun.result).value
       IN /\ error.class = "CloudflareApiError"
          /\ error.status = LastResponse.status
          /\ error.errors = ErrorList(LastResponse.rawBody)
          /\ error.body = LastResponse.rawBody
          /\ Unparsable(LastResponse.rawBody) => error.errors = <<>>

\* The second page of a listing is answered 200 with an envelope that says
\* success false and lists two errors.
C23_Witness ==
  /\ ClientFailed
  /\ Len(cRun.requests) = 2
  /\ LastResponse = HttpResponse(200, JsonBody(Envelope(
                      FALSE, <<>>, Some(<<RateLimited, AuthenticationError>>), None)))
  /\ Get(cRun.result).value.errors = <<RateLimited, AuthenticationError>>

\* ------------------------------------- claims on the pass and its summary
PassReturned == uRun.fn = "performUpdate" /\ uRun.pc = "returned"
PassSummary == Get(uRun.result).value

\* The hostnames of the targets, zone after zone
RECURSIVE ReconcileOrder(_)
ReconcileOrder(targets) ==
  IF targets = <<>> THEN <<>>
  ELSE [k \in DOMAIN Head(targets).hostnames |->
          [zoneId |-> Head(targets).zone.id, hostname |-> Head(targets).hostnames[k]]]
       \o ReconcileOrder(Tail(targets))

\* The reconcileHostname invocations of the pass, each known by the
\* listDnsRecords call it starts with
StartsReconcile(call) == call.method = "listDnsRecords" /\ call.arg # None
ReconcileCalls ==
  LET calls == SelectSeq(uCalls, StartsReconcile)
  IN [k \in DOMAIN calls |-> [zoneId |-> calls[k].zoneId, hostname |-> Get(calls[k].arg)]]

\* The write calls that returned, and the changes that stand for a write
ReturnedWrite(call) == call.method \in WriteMethods /\ call.outcome = "returned"
KindOfCall ==
  [deleteDnsRecord |-> "delete", createDnsRecord |-> "create",
   updateDnsRecord |-> "update"]
WritesCalled ==
  LET calls == SelectSeq(uCalls, ReturnedWrite)
  IN [k \in DOMAIN calls |-> [kind |-> KindOfCall[calls[k].method], zoneId |-> calls[k].zoneId]]
IsWrite(change) == change.kind # "skip"
WritesReported(changes) ==
  LET writes == SelectSeq(changes, IsWrite)
  IN [k \in DOMAIN writes |-> [kind |-> writes[k].kind, zoneId |-> writes[k].zoneId]]

IsSorted(strs) == \A i, j \in DOMAIN strs : i < j => ~StrLess(strs[j], strs[i])

\* The place of a change's hostname in the order of reconciliation
PlaceOf(change, order) ==
  CHOOSE p \in DOMAIN order :
    order[p] = [zoneId |-> change.zoneId, hostname |-> change.hostname]

\* C24: a pass that returns has reconciled the hostnames of its targets zone
\* after zone in discovery order, in each zone in the sorted order of its
\* hostnames; the changes of its summary are those of the hostnames in that
\* order, every hostname with a change at least and every write call with
\* its change; zoneCount is the number of targets and hostnameCount the
\* number of hostnames reconciled.
C24_SummaryInReconcileOrder ==
  PassReturned =>
    LET order == ReconcileOrder(uRun.targets)
        changes == PassSummary.changes
    IN /\ ReconcileCalls = order
       /\ \A t \in DOMAIN uRun.targets : IsSorted(uRun.targets[t].hostnames)
       /\ PassSummary.zoneCount = Len(uRun.targets)
       /\ PassSummary.hostnameCount = Len(order)
       /\ \A k \in DOMAIN changes :
            [zoneId |-> changes[k].zoneId, hostname |-> changes[k].hostname]
              \in {order[p] : p \in DOMAIN order}
       /\ \A i, j \in DOMAIN changes :
            i < j => PlaceOf(changes[i], order) <= PlaceOf(changes[j], order)
       /\ \A p \in DOMAIN order :
            \E k \in DOMAIN changes : PlaceOf(changes[k], order) = p
       /\ WritesReported(changes) = WritesCalled

\* One zone of several visible ones, one hostname, no record of it, IPv4
\* alone: one create change, zoneCount 1, hostnameCount 1.
C24_Witness ==
  /\ PassReturned
  /\ Len(uProvider.zones) > 1
  /\ uConfig.hostnameTargets = <<w_e_c>> /\ uConfig.zoneTargets = <<>>
  /\ uConfig.includeIPv4 /\ ~uConfig.includeIPv6
  /\ PassSummary.zoneCount = 1
  /\ PassSummary.hostnameCount = 1
  /\ Len(PassSummary.changes) = 1
  /\ PassSummary.changes[1].kind = "create"
  /\ PassSummary.changes[1].recordType = "A"

\* Two zones with more than one hostname between them, and writes in both.
C24_WitnessTwoZones ==
  /\ PassReturned
  /\ PassSummary.zoneCount = 2
  /\ PassSummary.hostnameCount > 2
  /\ \E i, j \in DOMAIN PassSummary.changes :
       /\ PassSummary.changes[i].zoneId # PassSummary.changes[j].zoneId
       /\ IsWrite(PassSummary.changes[i]) /\ IsWrite(PassSummary.changes[j])

\* ====================================================================
\* The configuration: config.ts
\* ====================================================================
DigitChars == <<"0", "1", "5", "6">>
DigitValues == <<0, 1, 5, 6>>
IsDigit(ch) == \E d \in DOMAIN DigitChars : DigitChars[d] = ch
DigitValue(ch) == DigitValues[CHOOSE d \in DOMAIN DigitChars : DigitChars[d] = ch]

\* String.prototype.split(sep) for a separator of one character
RECURSIVE split(_, _)
split(str, sep) ==
  IF \A k \in DOMAIN str : str[k] # sep THEN <<str>>
  ELSE LET at == CHOOSE k \in DOMAIN str :
                   str[k] = sep /\ \A j \in 1..(k - 1) : str[j] # sep
       IN <<SubSeq(str, 1, at - 1)>> \o split(SubSeq(str, at + 1, Len(str)), sep)

\* The value of the longest prefix of digits, None if there is no digit
RECURSIVE leadingDigits(_, _)
leadingDigits(str, value) ==
  IF str = <<>> \/ ~IsDigit(Head(str)) THEN value
  ELSE leadingDigits(Tail(str),
                     Some(10 * (IF value = None THEN 0 ELSE Get(value))
                          + DigitValue(Head(str))))

RECURSIVE trimStart(_)
trimStart(str) ==
  IF str # <<>> /\ Head(str) \in Whitespace THEN trimStart(Tail(str)) ELSE str

\* Number.parseInt(str, 10): leading whitespace is skipped, a sign is read,
\* then the digits up to the first character that is none; None is NaN
parseInt(str) ==
  LET text == trimStart(str)
      negative == text # <<>> /\ Head(text) = "-"
      digits == leadingDigits(IF negative THEN Tail(text) ELSE text, None)
  IN IF digits = None THEN None
     ELSE Some(IF negative THEN 0 - Get(digits) ELSE Get(digits))

ConfigError(message) == [class |-> "Error", message |-> message]
TokenRequired == [class |-> "ZodError", message |-> "CLOUDFLARE_API_TOKEN is required"]

TrueText == <<"t", "r", "u", "e">>
FalseText == <<"f", "a", "l", "s", "e">>

\* config.ts:51-63
parseBoolean(value, fallback, key) ==
  IF value = None \/ Len(trim(Get(value))) = 0 THEN Ok(fallback)
  ELSE LET normalized == toLowerCase(trim(Get(value)))
       IN IF normalized = TrueText THEN Ok(TRUE)
          ELSE IF normalized = FalseText THEN Ok(FALSE)
          ELSE Err(ConfigError(<<key, "must be either true or false">>))

\* config.ts:65-74
parseInterval(value, fallback, key) ==
  IF value = None \/ Len(trim(Get(value))) = 0 THEN Ok(fallback)
  ELSE LET parsed == parseInt(Get(value))
       IN IF parsed = None \/ Get(parsed) <= 0
          THEN Err(ConfigError(<<key, "must be a positive integer">>))
          ELSE Ok(Get(parsed))

NonEmpty(entry) == Len(entry) > 0

\* config.ts:76-84
parseList(value) ==
  IF value = None \/ Len(trim(Get(value))) = 0 THEN <<>>
  ELSE LET entries == split(Get(value), ",")
       IN SelectSeq([k \in DOMAIN entries |-> trim(entries[k])], NonEmpty)

\* config.ts:40-49 and 87: whether envSchema.parse(process.env) throws
envSchemaRejects(env) ==
  env.CLOUDFLARE_API_TOKEN = None \/ Len(Get(env.CLOUDFLARE_API_TOKEN)) < 1

\* config.ts:98 with the test left out
bothFamiliesOff_Allowed(includeIPv4, includeIPv6) == FALSE

\* config.ts:98
bothFamiliesOff(includeIPv4, includeIPv6) == ~includeIPv4 /\ ~includeIPv6

\* config.ts:86-115
loadConfig(env) ==
  IF envSchemaRejects(env) THEN Err(TokenRequired)
  ELSE
    LET hostnameTargets == parseList(env.TARGET_HOSTNAMES)
        zoneTargets == parseList(env.TARGET_ZONES)
        blacklist == parseList(env.BLACKLIST_HOSTNAMES)
        includeIPv4 == parseBoolean(env.INCLUDE_IPV4, TRUE, "INCLUDE_IPV4")
        includeIPv6 == parseBoolean(env.INCLUDE_IPV6, FALSE, "INCLUDE_IPV6")
        updateIntervalSeconds ==
          parseInterval(env.UPDATE_INTERVAL_SECONDS, 300, "UPDATE_INTERVAL_SECONDS")
        proxied == parseBoolean(env.CLOUDFLARE_PROXIED, TRUE, "CLOUDFLARE_PROXIED")
    IN IF Len(hostnameTargets) = 0 /\ Len(zoneTargets) = 0
       THEN Err(ConfigError(
              "Configure at least one entry in TARGET_HOSTNAMES or TARGET_ZONES"))
       ELSE IF ~includeIPv4.ok THEN includeIPv4
       ELSE IF ~includeIPv6.ok THEN includeIPv6
       ELSE IF bothFamiliesOff(includeIPv4.value, includeIPv6.value)
       THEN Err(ConfigError("INCLUDE_IPV4 and INCLUDE_IPV6 cannot both be false"))
       ELSE IF ~updateIntervalSeconds.ok THEN updateIntervalSeconds
       ELSE IF ~proxied.ok THEN proxied
       ELSE Ok([apiToken |-> Get(env.CLOUDFLARE_API_TOKEN),
                hostnameTargets |-> hostnameTargets,
                zoneTargets |-> zoneTargets,
                blacklist |-> blacklist,
                includeIPv4 |-> includeIPv4.value,
                includeIPv6 |-> includeIPv6.value,
                updateIntervalSeconds |-> updateIntervalSeconds.value,
                proxied |-> proxied.value])

\* ---------------------------------------------- the start of the process
\* process.env: a variable is unset (None) or holds a text.
Token == <<"t", "o", "k">>
BaseEnv ==
  [CLOUDFLARE_API_TOKEN |-> Some(Token),
   TARGET_HOSTNAMES |-> Some(w_e_c \o <<",", " ">> \o q_e_c),
   TARGET_ZONES |-> None,
   BLACKLIST_HOSTNAMES |-> None,
   INCLUDE_IPV4 |-> None,
   INCLUDE_IPV6 |-> None,
   UPDATE_INTERVAL_SECONDS |-> None,
   CLOUDFLARE_PROXIED |-> None]

\* Zones alone, IPv6 alone, an interval of 60 seconds, no proxying
ZonesEnv ==
  [BaseEnv EXCEPT !.TARGET_HOSTNAMES = Some(<<" ">>),
                  !.TARGET_ZONES = Some(e_c),
                  !.BLACKLIST_HOSTNAMES = Some(q_e_c \o <<",">>),
                  !.INCLUDE_IPV4 = Some(<<" ", "F", "A", "L", "S", "E">>),
                  !.INCLUDE_IPV6 = Some(<<"T", "r", "u", "e">>),
                  !.UPDATE_INTERVAL_SECONDS = Some(<<"6", "0">>),
                  !.CLOUDFLARE_PROXIED = Some(FalseText)]

Envs ==
  {BaseEnv, ZonesEnv,
   [BaseEnv EXCEPT !.CLOUDFLARE_API_TOKEN = Some(<<" ">>),
                   !.UPDATE_INTERVAL_SECONDS = Some(<<" ", "1", "5", ".", "5">>)]}
    \cup {[env EXCEPT !.CLOUDFLARE_API_TOKEN = token] :
            env \in {BaseEnv, ZonesEnv}, token \in {None, Some(<<>>)}}
    \cup {[BaseEnv EXCEPT !.TARGET_HOSTNAMES = hostnames, !.TARGET_ZONES = zones] :
            hostnames \in {None, Some(<<>>), Some(<<" ", ",", " ">>)},
            zones \in {None, Some(<<",">>)}}
    \cup {[env EXCEPT !.INCLUDE_IPV4 = Some(ipv4), !.INCLUDE_IPV6 = ipv6] :
            env \in {BaseEnv, ZonesEnv},
            ipv4 \in {FalseText, <<"F", "a", "l", "s", "e", " ">>},
            ipv6 \in {None, Some(<<" ">>), Some(FalseText)}}
    \cup {[env EXCEPT !.UPDATE_INTERVAL_SECONDS = Some(interval)] :
            env \in {BaseEnv, ZonesEnv},
            interval \in {<<"0">>, <<"-", "5">>, <<"0", ".", "5">>, <<"a", "b", "c">>}}
    \cup {[BaseEnv EXCEPT !.CLOUDFLARE_PROXIED = Some(<<"1">>)],
          [BaseEnv EXCEPT !.INCLUDE_IPV6 = Some(<<"o", "k">>)]}

BootInit ==
  /\ shouldAutoStart \in BOOLEAN
  /\ schedulerStarted = FALSE
  /\ timer = None
  /\ running = FALSE
  /\ lastSuccess = None
  /\ lastError = None
  /\ intervals = {}
  /\ nextHandle = 1
  /\ execs = <<>>
  /\ nextExec = 1
  /\ lastDone = None
  /\ lastOutcome = None
  /\ lastOk = None
  /\ snapshotResult = None
  /\ DiscoveryIdle
  /\ ResolverIdle
  /\ UpdateIdle
  /\ ClientIdle
  /\ bEnv \in Envs
  /\ bConfig = None
  /\ bRuntime = "unloaded"

outsideBoot == <<discoveryVars, resolverVars, updateVars, clientVars>>

\* config.ts is evaluated (config.ts:117)
LoadConfig ==
  /\ bConfig = None
  /\ bConfig' = Some(loadConfig(bEnv))
  /\ UNCHANGED <<bEnv, bRuntime, schedulerVars, outsideBoot>>

\* runtime.ts is evaluated after config.ts (runtime.ts:1-33): the client and
\* the scheduler are created, and the scheduler is started unless this is
\* the production build
LoadRuntime ==
  /\ bRuntime = "unloaded"
  /\ bConfig # None /\ Get(bConfig).ok
  /\ bRuntime' = "loaded"
  /\ Apply(EnsureSchedulerStartedSync(Snap))
  /\ UNCHANGED <<bEnv, bConfig, snapshotResult, outsideBoot>>

\* The evaluation of config.ts threw: the import at runtime.ts:1 throws and
\* the body of runtime.ts is not evaluated
LoadRuntimeFails ==
  /\ bRuntime = "unloaded"
  /\ bConfig # None /\ ~Get(bConfig).ok
  /\ bRuntime' = "failed"
  /\ UNCHANGED <<bEnv, bConfig, schedulerVars, outsideBoot>>

\* With runtime.ts loaded the scheduler is there for the timer and for the
\* dashboard.
Running == bRuntime = "loaded" /\ Next

BootNext ==
  \/ LoadConfig
  \/ LoadRuntime
  \/ LoadRuntimeFails
  \/ Running

SpecBoot == BootInit /\ [][BootNext]_vars

\* ------------------------------------- claims on the start of the process
Blank(value) ==
  value = None \/ \A k \in DOMAIN Get(value) : Get(value)[k] \in Whitespace \cup {","}
Says(value, word) == value # None /\ toLowerCase(trim(Get(value))) = word

MissingToken(env) ==
  env.CLOUDFLARE_API_TOKEN = None \/ Get(env.CLOUDFLARE_API_TOKEN) = <<>>
NoTarget(env) == Blank(env.TARGET_HOSTNAMES) /\ Blank(env.TARGET_ZONES)
BothFamiliesDisabled(env) ==
  /\ Says(env.INCLUDE_IPV4, FalseText)
  /\ Blank(env.INCLUDE_IPV6) \/ Says(env.INCLUDE_IPV6, FalseText)
NonPositiveInterval(env) ==
  env.UPDATE_INTERVAL_SECONDS
    \in {Some(<<"0">>), Some(<<"-", "5">>), Some(<<"0", ".", "5">>)}

ConfigurationError(env) ==
  MissingToken(env) \/ NoTarget(env) \/ BothFamiliesDisabled(env)
    \/ NonPositiveInterval(env)

SchedulerUntouched ==
  /\ ~schedulerStarted /\ timer = None /\ intervals = {}
  /\ ~running /\ execs = <<>> /\ nextExec = 1
  /\ lastOutcome = None /\ lastSuccess = None /\ lastError = None

\* C25: with a missing token, no hostname and no zone target, both address
\* families disabled or a non-positive interval, loadConfig throws; and
\* when it has thrown, runtime.ts is never loaded, no scheduler is created
\* or started, no timer is armed and no pass runs.
C25_ConfigurationErrorStopsTheStart ==
  bConfig # None =>
    /\ ConfigurationError(bEnv) => ~Get(bConfig).ok
    /\ ~Get(bConfig).ok => bRuntime # "loaded" /\ SchedulerUntouched

\* Both families are switched off: the load of runtime.ts has failed.
C25_Witness ==
  /\ BothFamiliesDisabled(bEnv)
  /\ ~MissingToken(bEnv) /\ ~NoTarget(bEnv) /\ ~NonPositiveInterval(bEnv)
  /\ shouldAutoStart
  /\ bRuntime = "failed"
  /\ SchedulerUntouched

\* ----------------------------------- more claims on the reconciler
\* The address resolved for a record type
AddressFor(type) == IF type = "A" THEN Get(uRun.ips).ipv4 ELSE Get(uRun.ips).ipv6

\* The first record listed of a type differs from the record wanted: in its
\* content, its proxy flag or its TTL, which is wanted to be 1
Differs(type) ==
  LET primary == Listed(type)[1]
  IN \/ primary.content # Get(AddressFor(type))
     \/ primary.proxied # uConfig.proxied
     \/ primary.ttl # 1

\* The calls that update, and the calls that write, a record
UpdatesOf(record) ==
  {k \in DOMAIN uCalls :
     uCalls[k].method = "updateDnsRecord" /\ uCalls[k].arg.recordId = record.id}
WritesOf(record) ==
  UpdatesOf(record)
    \cup {k \in DOMAIN uCalls :
            uCalls[k].method = "deleteDnsRecord" /\ uCalls[k].arg = record.id}

\* C26: for an enabled family with a record of its type listed,
\* reconcileHostname updates the first record listed, with one update call
\* and one update change, exactly when its content, proxy flag or TTL
\* differs from the record wanted; otherwise it issues no write call for
\* that record and reports one skip change with the reason "unchanged".
C26_UpdateIffDiffers ==
  Reconciled =>
    \A type \in {"A", "AAAA"} :
      (Enabled(type) /\ Listed(type) # <<>>) =>
        LET primary == Listed(type)[1]
        IN /\ Differs(type) =>
                /\ Cardinality(UpdatesOf(primary)) = 1
                /\ WritesOf(primary) = UpdatesOf(primary)
                /\ \A k \in UpdatesOf(primary) :
                     /\ uCalls[k].arg.input.content = Get(AddressFor(type))
                     /\ uCalls[k].arg.input.proxied = uConfig.proxied
                     /\ uCalls[k].arg.input.ttl = 1
                /\ Cardinality(ChangesWhere({"update"}, type)) = 1
                /\ ChangesWhere({"skip"}, type) = {}
           /\ ~Differs(type) =>
                /\ WritesOf(primary) = {}
                /\ Cardinality(ChangesWhere({"skip"}, type)) = 1
                /\ \A k \in ChangesWhere({"skip"}, type) :
                     Changes[k].reason = Some("unchanged")
                /\ ChangesWhere({"update"}, type) = {}
           /\ ChangesWhere({"create"}, type) = {}

\* The A record listed has the address and the proxy flag wanted and a TTL
\* of 300: it was updated.
C26_Witness ==
  /\ Reconciled
  /\ uConfig.includeIPv4 /\ ~uConfig.proxied
  /\ Len(Listed("A")) = 1
  /\ Listed("A")[1].content = Current4
  /\ Listed("A")[1].proxied = uConfig.proxied
  /\ Listed("A")[1].ttl = 300
  /\ Cardinality(UpdatesOf(Listed("A")[1])) = 1
  /\ Held("A")[1].ttl = 1

\* The A record listed is the record wanted: one skip change, no write call.
C26_WitnessUnchanged ==
  /\ Reconciled
  /\ uConfig.includeIPv4 /\ ~uConfig.includeIPv6
  /\ Len(Listed("A")) = 1 /\ ~Differs("A")
  /\ Len(Changes) = 1 /\ Changes[1].kind = "skip"
  /\ \A k \in DOMAIN uCalls : uCalls[k].method \notin WriteMethods

\* The calls that delete a record
DeletesOf(record) ==
  {k \in DOMAIN uCalls :
     uCalls[k].method = "deleteDnsRecord" /\ uCalls[k].arg = record.id}

\* C27: for a disabled family reconcileHostname deletes every record of the
\* family's type that it listed for the hostname, each with one delete call
\* and one delete change, and makes no create, update or skip change of
\* that type; afterwards the hostname has no record of that type.
C27_DisabledFamilyDeleted ==
  Reconciled =>
    \A type \in {"A", "AAAA"} :
      ~Enabled(type) =>
        /\ \A k \in DOMAIN Listed(type) :
             /\ Cardinality(DeletesOf(Listed(type)[k])) = 1
             /\ UpdatesOf(Listed(type)[k]) = {}
        /\ Cardinality(ChangesWhere({"delete"}, type)) = Len(Listed(type))
        /\ ChangesWhere({"create", "update", "skip"}, type) = {}
        /\ Held(type) = <<>>

\* IPv4 is disabled and three A records were listed: all three are gone.
C27_Witness ==
  /\ Reconciled
  /\ ~uConfig.includeIPv4
  /\ Len(Listed("A")) = 3
  /\ Cardinality(ChangesWhere({"delete"}, "A")) = 3
  /\ Held("A") = <<>>
  /\ Len(Held("AAAA")) = 1

\* ------------------------------------- more claims on the scheduler
\* The passes of the scheduler that have a provider call outstanding: a pass
\* suspended in target discovery or in reconciliation awaits one call
OutstandingCalls == {i \in Live : execs[i].pc \in {"discover", "reconcile"}}

\* The calls of the pass under study that have not settled
PendingCalls == {k \in DOMAIN uCalls : uCalls[k].outcome = "pending"}

C28_WitnessInPass ==
  /\ uRun # <<>> /\ uRun.fn = "performUpdate"
  /\ Cardinality({k \in DOMAIN uCalls : uCalls[k].method \in WriteMethods}) = 2
  /\ PendingCalls = {Len(uCalls)}

\* --------------------------------------------- more claims on discovery
\* What the zones receive, in the order of receipt: an explicit hostname
\* that is not blacklisted goes to the zone found for it; a configured zone
\* receives its own name and then the names of its A, AAAA and CNAME
\* records that are not blacklisted.
Receipt(zoneId, hostname) == [zoneId |-> zoneId, hostname |-> hostname]

RECURSIVE ExplicitReceipts(_)
ExplicitReceipts(hostnames) ==
  IF hostnames = <<>> THEN <<>>
  ELSE LET hostname == Head(hostnames)
       IN (IF normalizeHostname(hostname) \in BlacklistSet THEN <<>>
           ELSE <<Receipt(Get(findZoneForHostname(hostname, tInput.zones)).id,
                          hostname)>>)
            \o ExplicitReceipts(Tail(hostnames))

RECURSIVE RecordReceipts(_, _)
RecordReceipts(zoneId, records) ==
  IF records = <<>> THEN <<>>
  ELSE (IF /\ Head(records).type \in {"A", "AAAA", "CNAME"}
           /\ normalizeHostname(Head(records).name) \notin BlacklistSet
        THEN <<Receipt(zoneId, Head(records).name)>> ELSE <<>>)
         \o RecordReceipts(zoneId, Tail(records))

ZoneNamed(zoneName) ==
  tInput.zones[CHOOSE k \in DOMAIN tInput.zones :
                 /\ normalizeHostname(tInput.zones[k].name) = normalizeHostname(zoneName)
                 /\ \A j \in DOMAIN tInput.zones :
                      normalizeHostname(tInput.zones[j].name) = normalizeHostname(zoneName)
                        => j <= k]

RECURSIVE ConfiguredReceipts(_)
ConfiguredReceipts(zoneNames) ==
  IF zoneNames = <<>> THEN <<>>
  ELSE LET zone == ZoneNamed(Head(zoneNames))
       IN <<Receipt(zone.id, zone.name)>>
            \o RecordReceipts(zone.id, tInput.recordsOf[zone.id])
            \o ConfiguredReceipts(Tail(zoneNames))

Receipts ==
  ExplicitReceipts(tInput.config.hostnameTargets)
    \o ConfiguredReceipts(tInput.config.zoneTargets)

\* The place of the zone's first receipt, and of the first receipt of the
\* normalized hostname by the zone
FirstReceipt(zoneId) ==
  CHOOSE r \in DOMAIN Receipts :
    /\ Receipts[r].zoneId = zoneId
    /\ \A q \in 1..(r - 1) : Receipts[q].zoneId # zoneId
FirstSeen(zoneId, canonical) ==
  CHOOSE r \in DOMAIN Receipts :
    /\ Receipts[r].zoneId = zoneId
    /\ normalizeHostname(Receipts[r].hostname) = canonical
    /\ \A q \in 1..(r - 1) :
         ~(Receipts[q].zoneId = zoneId
             /\ normalizeHostname(Receipts[q].hostname) = canonical)
Received(zoneId) ==
  {normalizeHostname(Receipts[r].hostname) :
     r \in {q \in DOMAIN Receipts : Receipts[q].zoneId = zoneId}}

\* C29: collectZoneTargets returns one entry for each zone that received a
\* hostname and none for another zone, the zones in the order of their
\* first receipt; a zone's hostnames are the normalized hostnames it
\* received, each once, in the spelling first received, in ascending order
\* of their UTF-16 code units.
C29_OneSortedEntryPerZone ==
  Returned =>
    /\ {Targets[t].zone.id : t \in DOMAIN Targets}
         = {Receipts[r].zoneId : r \in DOMAIN Receipts}
    /\ \A t, u \in DOMAIN Targets :
         t < u => FirstReceipt(Targets[t].zone.id) < FirstReceipt(Targets[u].zone.id)
    /\ \A t \in DOMAIN Targets :
         LET zoneId == Targets[t].zone.id
             hostnames == Targets[t].hostnames
         IN /\ Targets[t].zone \in {tInput.zones[k] : k \in DOMAIN tInput.zones}
            /\ {normalizeHostname(hostnames[h]) : h \in DOMAIN hostnames}
                 = Received(zoneId)
            /\ \A h \in DOMAIN hostnames :
                 hostnames[h]
                   = Receipts[FirstSeen(zoneId, normalizeHostname(hostnames[h]))].hostname
            /\ \A h, g \in DOMAIN hostnames : h < g => StrLess(hostnames[h], hostnames[g])

\* w.e.c and W.e.c are explicit, the zones a.e.c and E.C are configured, and
\* the provider lists a.e.c before e.c: the zone e.c comes first, with w.e.c
\* once and after the names it received later.
C29_Witness ==
  /\ Returned
  /\ tInput.zones = <<zoneA, zoneE>>
  /\ tInput.config.hostnameTargets = <<w_e_c, W_e_c>>
  /\ tInput.config.zoneTargets = <<a_e_c, E_C>>
  /\ Targets = <<[zone |-> zoneE, hostnames |-> <<e_c, s_a_e_c, w_e_c>>],
                 [zone |-> zoneA, hostnames |-> <<a_e_c, s_a_e_c>>]>>

\* ------------------------------------------------ more claims on the pass
\* The reconcileHostname invocations of the pass so far for the normalized
\* hostname
ReconciliationsOf(canonical) ==
  {k \in DOMAIN ReconcileCalls :
     normalizeHostname(ReconcileCalls[k].hostname) = canonical}
Reconciliations ==
  {normalizeHostname(ReconcileCalls[k].hostname) : k \in DOMAIN ReconcileCalls}

\* C30: no pass calls reconcileHostname twice for the same normalized
\* hostname, whether the hostname is explicit, discovered in a configured
\* zone or both.
C30_ReconciledAtMostOncePerPass ==
  uRun.fn = "performUpdate" =>
    \A canonical \in Reconciliations :
      Cardinality(ReconciliationsOf(canonical)) <= 1

\* Within one zone no normalized hostname is reconciled twice in a pass.
C30_ReconciledAtMostOncePerZone ==
  uRun.fn = "performUpdate" =>
    \A i, j \in DOMAIN ReconcileCalls :
      (/\ ReconcileCalls[i].zoneId = ReconcileCalls[j].zoneId
       /\ normalizeHostname(ReconcileCalls[i].hostname)
            = normalizeHostname(ReconcileCalls[j].hostname)) => i = j

\* A hostname that is explicit and is discovered in the records of its own
\* configured zone has been reconciled once by a pass that returned.
C30_WitnessSameZone ==
  /\ PassReturned
  /\ uConfig.hostnameTargets = <<s_a_e_c>>
  /\ uConfig.zoneTargets = <<E_C, a_e_c>>
  /\ uProvider.zones = <<zoneE, zoneA>>
  /\ \A k \in DOMAIN uProvider.records["zoneE"] :
       uProvider.records["zoneE"][k].name # s_a_e_c
  /\ \E k \in DOMAIN uProvider.records["zoneA"] :
       uProvider.records["zoneA"][k].name = s_a_e_c
  /\ Cardinality(ReconciliationsOf(s_a_e_c)) = 1

\* s.a.e.c is explicit and owned by the zone a.e.c, and the configured zone
\* e.c holds a record of that name: the pass reconciles it in both zones.
C30_ReconciledInTwoZones ==
  /\ uRun.fn = "performUpdate"
  /\ uConfig.hostnameTargets = <<s_a_e_c>>
  /\ \E i, j \in ReconciliationsOf(s_a_e_c) :
       /\ ReconcileCalls[i].zoneId = "zoneA"
       /\ ReconcileCalls[j].zoneId = "zoneE"

\* ------------------------------------- the targets of a configured zone
\* The normalized names of the zone's records of the types, blacklisted
\* ones left out
NamesOfRecords(zoneId, types) ==
  {normalizeHostname(tInput.recordsOf[zoneId][k].name) :
     k \in {j \in DOMAIN tInput.recordsOf[zoneId] :
              tInput.recordsOf[zoneId][j].type \in types}} \ BlacklistSet

\* The normalized explicit hostnames that are not blacklisted
ExplicitNames ==
  {normalizeHostname(tInput.config.hostnameTargets[k]) :
     k \in DOMAIN tInput.config.hostnameTargets} \ BlacklistSet

\* The normalized hostnames of the zone's target set
TargetNames(zoneId) ==
  UNION {{normalizeHostname(Targets[t].hostnames[h]) : h \in DOMAIN Targets[t].hostnames} :
           t \in {u \in DOMAIN Targets : Targets[u].zone.id = zoneId}}

Managed(record, hostname) ==
  /\ record.type \in {"A", "AAAA", "CNAME"}
  /\ normalizeHostname(record.name) = normalizeHostname(hostname)

\* The provider's records that are not such records, zone by zone
Unmanaged(provider, hostname) ==
  [z \in DOMAIN provider.records |->
     SelectSeq(provider.records[z], LAMBDA r : ~Managed(r, hostname))]

RecordOf(provider, zoneId, recordId) ==
  provider.records[zoneId][CHOOSE k \in DOMAIN provider.records[zoneId] :
                             provider.records[zoneId][k].id = recordId]

\* What a write call is aimed at: the record to delete or update, the
\* record to create
AimOf(call, provider) ==
  IF call.method = "deleteDnsRecord" THEN RecordOf(provider, call.zoneId, call.arg)
  ELSE IF call.method = "updateDnsRecord"
       THEN RecordOf(provider, call.zoneId, call.arg.recordId)
  ELSE call.arg

\* C32: every write call reconcileHostname issues is aimed at an A, AAAA or
\* CNAME record named by the hostname, and no step of it changes a record of
\* another type or of another name.
C32_OtherRecordsUntouched ==
  [][uRun.fn = "reconcileHostname" =>
       /\ Unmanaged(uProvider', w_e_c) = Unmanaged(uProvider, w_e_c)
       /\ (uRun'.pc = "call" /\ Get(uRun'.pending).method \in WriteMethods) =>
            /\ Get(uRun'.pending).zoneId = zoneE.id
            /\ Managed(AimOf(Get(uRun'.pending), uProvider'), w_e_c)
            /\ Get(uRun'.pending).method = "updateDnsRecord" =>
                 Managed(Get(uRun'.pending).arg.input, w_e_c)]_vars

\* The hostname had an A record with an old address, a TXT record and an
\* AAAA record: after the reconciliation with its update the TXT record and
\* the record of q.e.c are as they were.
C32_Witness ==
  /\ Reconciled
  /\ \E k \in DOMAIN Changes : Changes[k].kind = "update"
  /\ \E k \in DOMAIN uProvider.records["zoneE"] :
       uProvider.records["zoneE"][k] = Record(2, "TXT", w_e_c, "v=spf1 -all", FALSE, 300)
  /\ \E k \in DOMAIN uProvider.records["zoneE"] :
       uProvider.records["zoneE"][k] = Bystander

\* ------------------------------------------- claims on the snapshot
SnapshotTaken == IsSome(snapshotResult)

\* C33: in every state the running field snapshot() would return is true
\* exactly when a pass of the scheduler is in progress; a snapshot() call
\* returns that field with lastSuccess and lastError as they are, and
\* changes neither the running flag, lastSuccess, lastError, the timer and
\* its interval nor the invocations under way.
C33_SnapshotShowsTheState ==
  /\ [](snapshot(running, lastSuccess, lastError).running <=> PassesInFlight # {})
  /\ [](SnapshotTaken =>
          Get(snapshotResult) = [running |-> PassesInFlight # {},
                                 lastSuccess |-> lastSuccess,
                                 lastError |-> lastError])
  /\ [][IsSome(snapshotResult') =>
          UNCHANGED <<running, lastSuccess, lastError, timer, intervals, execs,
                      schedulerStarted>>]_vars

\* A snapshot taken while a pass runs, with the timer armed, after a pass
\* that failed.
C33_Witness ==
  /\ SnapshotTaken
  /\ Get(snapshotResult).running
  /\ IsSome(Get(snapshotResult).lastError)
  /\ IsSome(timer)
  /\ PassesInFlight # {}

\* A snapshot taken between two passes shows running false and the summary
\* of the pass before.
C33_WitnessIdle ==
  /\ SnapshotTaken
  /\ ~Get(snapshotResult).running
  /\ IsSome(Get(snapshotResult).lastSuccess)

\* ------------------------------------------ more claims on the client
\* C34: a list operation on a provider that reports one total_pages value
\* throughout issues at most max(1, total_pages) requests, whatever page
\* number the provider's result_info echoes.
C34_AtMostTotalPagesRequests ==
  (Called /\ cServer.method \in ListMethods) =>
    Len(cRun.requests) <= AtLeastOne(cServer.totalPages)

\* The provider reports two pages and its result_info has said page 1 in
\* answer to the request for page 2: the operation asks for a third page.
C34_AsksBeyondTotalPages ==
  /\ Called /\ cServer.method \in ListMethods
  /\ cServer.totalPages = 2
  /\ IsSome(cRun.response) /\ ~LastResponse.rejected
  /\ IsEnvelope(LastResponse.rawBody)
  /\ LastResponse.rawBody.value.result_info = Some([page |-> 1, total_pages |-> 2])
  /\ cRun.pc = "fetch"
  /\ cRun.requests = <<Some(1), Some(2), Some(3)>>

\* ----------------------------------------- the order of a pass's calls
\* The write calls
WriteCall(call) == call.method \in WriteMethods
PassThrew == uRun.fn = "performUpdate" /\ uRun.pc = "thrown"
PassError == Get(uRun.result).value

\* The pass failed in target discovery: collectZoneTargets threw, or a call
\* of it failed.
FailedInDiscovery ==
  /\ PassThrew
  /\ \/ PassError.class = "Error" /\ PassError # ResolutionError
     \/ uCalls # <<>> /\ uCalls[Len(uCalls)].outcome = "failed"
          /\ DiscoveryCall(uCalls[Len(uCalls)])

\* C35: in a pass every write call comes after the addresses were resolved
\* and after every call of target discovery, with the targets known; a pass
\* that failed in address resolution has issued no provider call, and one
\* that failed in target discovery no write call.
C35_WritesAfterDiscovery ==
  uRun.fn = "performUpdate" =>
    /\ \A i, j \in DOMAIN uCalls :
         (WriteCall(uCalls[i]) /\ DiscoveryCall(uCalls[j])) => j < i
    /\ (\E i \in DOMAIN uCalls : WriteCall(uCalls[i])) =>
         /\ IsSome(uRun.ips)
         /\ uRun.targets # <<>>
         /\ uCalls[1].method = "listZones" /\ uCalls[1].outcome = "returned"
    /\ (PassThrew /\ PassError = ResolutionError) => uCalls = <<>>
    /\ FailedInDiscovery => \A i \in DOMAIN uCalls : ~WriteCall(uCalls[i])

\* The listing of the second configured zone failed: three calls, all of
\* discovery, and the pass is over.
C35_Witness ==
  /\ FailedInDiscovery
  /\ Len(uCalls) = 3
  /\ uCalls[3].outcome = "failed"
  /\ uCalls[3].method = "listDnsRecords" /\ uCalls[3].arg = None
  /\ PassError \in ApiErrors

\* Address resolution failed: the pass is over without a provider call.
C35_WitnessResolution ==
  /\ PassThrew
  /\ PassError = ResolutionError
  /\ uCalls = <<>>

\* ------------------------------------- the addresses the reconciler needs
NotResolved == {"IPv4 address not resolved", "IPv6 address not resolved"}

\* C36: in a pass the reconciler runs with the addresses resolved for the
\* same include flags, so the address of every managed family is there: no
\* step of reconcileHostname throws "IPv4 address not resolved" or "IPv6
\* address not resolved", and no pass ends with one of these errors, after a
\* CNAME deletion or otherwise.
C36_AddressOfEveryManagedFamily ==
  uRun.fn = "performUpdate" =>
    /\ IsSome(uRun.ips) =>
         /\ uConfig.includeIPv4 => IsSome(Get(uRun.ips).ipv4)
         /\ uConfig.includeIPv6 => IsSome(Get(uRun.ips).ipv6)
    /\ \A k \in DOMAIN uRun.plan : uRun.plan[k].op # "throw"
    /\ PassThrew => PassError.message \notin NotResolved

\* With both families managed a pass deleted the CNAME record of s.a.e.c
\* and went on to create its A and its AAAA record.
C36_Witness ==
  /\ PassReturned
  /\ uConfig.includeIPv4 /\ uConfig.includeIPv6
  /\ \E i, j, k \in DOMAIN PassSummary.changes :
       /\ i < j /\ j < k
       /\ PassSummary.changes[i].kind = "delete"
       /\ PassSummary.changes[i].recordType = "CNAME"
       /\ PassSummary.changes[j].kind = "create"
       /\ PassSummary.changes[j].recordType = "A"
       /\ PassSummary.changes[k].kind = "create"
       /\ PassSummary.changes[k].recordType = "AAAA"
       /\ PassSummary.changes[i].hostname = PassSummary.changes[j].hostname
       /\ PassSummary.changes[i].hostname = PassSummary.changes[k].hostname
       /\ PassSummary.changes[i].zoneId = PassSummary.changes[k].zoneId

\* ------------------------------------------- skipped requests are dropped
\* The passes the current step starts
PassesStarted == {i \in DOMAIN execs' : InFlight(execs'[i])} \ PassesInFlight

\* No pass is running, and requests were made after the start of the pass
\* that ended last: they were made while it ran and were skipped.
SkippedDuringLastPass ==
  /\ Live = {}
  /\ DonePass
  /\ Get(lastDone).id + 1 < nextExec

\* C37 (as claimed): after a request was skipped and the running pass has
\* ended, the next pass starts only on a timer tick or a trigger() call.
C37_NextPassOnTickOrTrigger ==
  [][ SkippedDuringLastPass =>
        \A i \in PassesStarted : execs'[i].origin \in {"tick", "trigger"} ]_vars

\* C37 (amended): a skipped request is dropped.  A skipped invocation never
\* becomes a pass; the step in which a pass ends, and every step that makes
\* no execute() request, starts no pass; a pass is started only by the
\* execute() request of the step itself, made by a tick of an active
\* interval, by trigger() or by a start() call that arms the timer.
C37_SkippedRequestDropped ==
  [][ /\ \A i \in Live :
           execs[i].skipped =>
             (i \in DOMAIN execs' => execs'[i].skipped /\ ~InFlight(execs'[i]))
      /\ (\E i \in Live : Resumes(i)) => PassesStarted = {}
      /\ NewIds = {} => PassesStarted = {}
      /\ \A i \in PassesStarted :
           /\ i \in NewIds
           /\ ~execs'[i].skipped
           /\ execs'[i].origin \in {"tick", "trigger", "start"}
           /\ execs'[i].origin = "tick" => intervals # {}
           /\ execs'[i].origin = "start" => ArmingStep
    ]_vars

\* A pass ended during which a request was skipped; nothing started until
\* the next tick, whose pass is now in flight.
C37_Witness ==
  /\ DonePass
  /\ \E j \in PassesInFlight :
       /\ execs[j].origin = "tick"
       /\ Get(lastDone).id + 1 < j
       /\ execs[j].pc = "resolve"

====
